---- MODULE Spec2Model ----
(***************************************************************************)
(* A model of the reconciliation-and-persistence pipeline of the cursor    *)
(* usage monitor: the paginated event fetcher (internal/api/invoice.go),   *)
(* the SQLite persistence layer (internal/storage), the alert engine       *)
(* (internal/alerts/alerts.go) and the poll cycle (internal/monitor).      *)
(***************************************************************************)
EXTENDS Integers, Sequences, FiniteSets, Bags, TLC

(***************************************************************************)
(* Bounds of the model.                                                    *)
(***************************************************************************)
\* totals 0..MaxTotal are tried with every page size
MaxTotal == 7
\* page sizes 1..MaxPageSize are tried besides the program's own page size
MaxPageSize == 3
\* the page counter is exact up to MaxPage; beyond it only its parity is kept
MaxPage == 10
\* the clock runs over the days 0..MaxDay
MaxDay == 2
\* billing-cycle start dates and event dates are the days 1..MaxDate
MaxDate == 2
\* a call of SaveUsageEvents carries 1..MaxBatch events
MaxBatch == 2
\* a call of SaveInvoiceItems carries 1..MaxItems items
MaxItems == 2
\* a billing cycle lasts CycleDays days
CycleDays == 2
\* a poll cycle starts only while fewer than MaxSnapshots snapshots are stored
MaxSnapshots == 2

(***************************************************************************)
(* Program constants.                                                      *)
(***************************************************************************)
\* pageSize := 100 in getFilteredUsageEvents
DefaultPageSize == 100
\* Database.RetentionDays of DefaultConfig
DefaultRetentionDays == 90
\* the request limit GetUsage assumes when the response carries none
DefaultLimit == 500

VARIABLES
    \* ---- the paginated fetcher (getFilteredUsageEvents) ----
    pageSize,        \* the page size requested
    srvTotal,        \* the number of events the remote source holds for the range
    fpc,             \* position of the fetch: idle, loop, done, error, returned
    page,            \* the page about to be requested (the last one, after the loop)
    allEvents,       \* len(allEvents): the events accumulated so far
    totalCount,      \* the total recorded from page 1 (0 when none was recorded)
    pageEventCount,  \* the item count of the most recent page
    reportedTotal,   \* what page 1 carried as totalUsageEventsCount (NoTotal or Reported(v))
    conforming,      \* every response so far was the one a conforming server gives
    page1Conforming, \* the response to page 1 was the one a conforming server gives
    invResult,       \* what GetMonthlyInvoiceWithCycle makes of the fetch
    \* ---- the persistence layer (committed database state) ----
    now,             \* time.Now(), in days
    retentionDays,   \* config.Database.RetentionDays
    usage_snapshots, \* table usage_snapshots, a bag of rows
    alerts_sent,     \* table alerts_sent, a bag of rows
    invoice_items,   \* table invoice_items, a bag of rows
    usage_events,    \* table usage_events, a bag of rows
    tx,              \* the open transaction of SaveInvoiceItems
    lastCall,        \* the storage call made by the last step, and what it returned
    \* ---- the poll cycle (Monitor.poll) and the alert engine ----
    pc,              \* position of the poll cycle
    usageData,       \* the usage view of the running cycle
    invoiceData,     \* the invoice data of the running cycle
    deliveries,      \* notifications delivered so far, per (threshold, billing cycle)
    lastEval,        \* what the last evaluation of the alerts did
    remote,          \* the invoice items and usage events the remote source holds
    switchHist,      \* on-demand switch notifications since the remote was last
                     \* off on-demand (history)
    lastFetch,       \* what the fetch of the last cycle did and met
    trigger,         \* who called the poll that the variables above belong to
    other,           \* the poll of the other caller: its trigger and locals
    \* ---- the token cache (auth.Auth) ----
    cachedToken,     \* Auth.cachedToken
    cursorDB,        \* the access token Cursor's database holds
    getToken,        \* the GetToken call of each caller: its position and locals
    refresh,         \* the last RefreshToken, until a GetToken is called (history)
    tokenReturned,   \* what the GetToken that returned last was and gave (history)
    \* ---- the monitoring loop (Monitor.Run) ----
    run,             \* position and locals of Run
    ctxDone,         \* the context given to Run has been cancelled
    \* ---- the invoice request (Client.tryGetInvoice) ----
    frames,          \* the calls of tryGetInvoice in progress, the innermost last
    invoiceReturned  \* what the outermost call returned

fvars == <<pageSize, srvTotal, fpc, page, allEvents, totalCount, pageEventCount,
           reportedTotal, conforming, page1Conforming, invResult>>

tables == <<usage_snapshots, alerts_sent, invoice_items, usage_events>>

svars == <<now, retentionDays, tables, tx, lastCall>>

hvars == <<remote, switchHist, lastFetch>>

avars == <<cachedToken, cursorDB, getToken, refresh, tokenReturned>>

rvars == <<run, ctxDone>>

ivars == <<frames, invoiceReturned>>

cvars == <<trigger, other, avars, rvars, ivars>>

pvars == <<pc, usageData, invoiceData, deliveries, lastEval, hvars, cvars>>

vars == <<fvars, svars, pvars>>

(***************************************************************************)
(* Helpers.                                                                *)
(***************************************************************************)
Min(a, b) == IF a < b THEN a ELSE b
Max(a, b) == IF a > b THEN a ELSE b

\* (total + pageSize - 1) / pageSize, as TestPaginationLogic computes the pages
CeilDiv(total, size) == (total + size - 1) \div size

RECURSIVE GCD(_, _)
GCD(a, b) == IF b = 0 THEN a ELSE GCD(b, a % b)

\* the float64 n / d (n >= 0, d > 0), kept exact: a fraction in lowest terms
Ratio(n, d) == LET g == GCD(n, d) IN [num |-> n \div g, den |-> d \div g]

\* total % pageSize, or pageSize when that is zero (TestPaginationLogic)
LastPageSize(total, size) == IF total % size = 0 THEN size ELSE total % size

(***************************************************************************)
(* The state before anything has run.                                      *)
(***************************************************************************)
\* the totalUsageEventsCount key of a response: missing, or a number
NoTotal == [present |-> FALSE, value |-> 0]
Reported(v) == [present |-> TRUE, value |-> v]

NoCall == [op |-> "none", key |-> <<>>, fault |-> FALSE, err |-> FALSE, result |-> FALSE]

FetcherAtRest ==
    /\ srvTotal = 0
    /\ fpc = "idle"
    /\ page = 1
    /\ allEvents = 0
    /\ totalCount = 0
    /\ pageEventCount = 0
    /\ reportedTotal = NoTotal
    /\ conforming = TRUE
    /\ page1Conforming = TRUE
    /\ invResult = [events |-> 0, err |-> FALSE]

\* no transaction is open
NoTx == [state |-> "none", billingCycle |-> 0, items |-> <<>>, next |-> 1,
         work |-> EmptyBag, before |-> EmptyBag]

StoreAtRest ==
    /\ now = 0
    /\ retentionDays = DefaultRetentionDays
    /\ usage_snapshots = EmptyBag
    /\ alerts_sent = EmptyBag
    /\ invoice_items = EmptyBag
    /\ usage_events = EmptyBag
    /\ tx = NoTx
    /\ lastCall = NoCall

\* no poll cycle is running
NoUsage == [BillingCycleStart |-> 0, PremiumRequestsUsed |-> 0,
            PremiumRequestsLimit |-> 0, UsagePercentage |-> Ratio(0, 1),
            IsOnDemand |-> FALSE, OnDemandSpendCents |-> 0]
\* also the invoice data poll falls back on when nothing could be fetched
NoInvoice == [Items |-> <<>>, UsageEvents |-> <<>>, TotalOnDemandCents |-> 0,
              IsOnDemand |-> FALSE]
NoEval == [ran |-> FALSE, attempted |-> {}, delivered |-> {}, sendFailed |-> {},
           stoppedAt |-> 0, stoppedStep |-> "none", err |-> FALSE,
           switchChecked |-> FALSE, previousIsOnDemand |-> FALSE, switchSent |-> FALSE]
\* a remote source with nothing billed and nothing used
NoRemote == [Items |-> <<>>, UsageEvents |-> <<>>]
NoSwitch == [fired |-> FALSE, refired |-> FALSE]
NoFetch == [ran |-> FALSE, ok |-> FALSE, err |-> "none", refreshes |-> 0,
            authRefreshes |-> 0, tokenReads |-> 0, usageCalls |-> 0, usageUnauthorized |-> FALSE,
            invoice |-> "none", invoiceCalls |-> 0, requestsUsed |-> 0,
            readOk |-> FALSE]

\* the callers of a Monitor: Run, on its ticker, and Poll, for a manual refresh
Callers == {"timer", "manual"}

\* the empty string that stands for no cached token
NoToken == [userID |-> "", jwt |-> 0]

\* no GetToken call of the caller is under way
NoGetToken == [pc |-> "idle", jwtToken |-> 0, afterRefresh |-> FALSE, alone |-> FALSE]
NoRefresh == [pending |-> FALSE, alone |-> FALSE]
NoTokenReturned == [afterRefresh |-> FALSE, alone |-> FALSE, reread |-> FALSE,
                    err |-> FALSE, token |-> NoToken, source |-> 0]

\* auth.New: nothing cached, no call made
AuthAtRest ==
    /\ cachedToken = NoToken
    /\ cursorDB = 1
    /\ getToken = [c \in Callers |-> NoGetToken]
    /\ refresh = NoRefresh
    /\ tokenReturned = NoTokenReturned

\* Run has not been called
NoRun == [pc |-> "start", after |-> "select", polls |-> 0, failed |-> 0,
          firstRun |-> FALSE, i |-> 0, billingCycleStart |-> 0, attempted |-> {},
          historical |-> "none", err |-> "none"]

RunAtRest == run = NoRun /\ ctxDone = FALSE

\* tryGetInvoice has not been called
NoInvoiceReturned == [done |-> FALSE, err |-> FALSE, hasData |-> FALSE, endpoint |-> 0]
InvoiceCallAtRest == frames = <<>> /\ invoiceReturned = NoInvoiceReturned

\* Poll has not been called
NoPoll == [trigger |-> "manual", pc |-> "idle", usageData |-> NoUsage,
           invoiceData |-> NoInvoice, lastEval |-> NoEval, lastFetch |-> NoFetch]

MonitorAtRest ==
    /\ pc = "idle"
    /\ usageData = NoUsage
    /\ invoiceData = NoInvoice
    /\ deliveries = EmptyBag
    /\ lastEval = NoEval
    /\ remote = NoRemote
    /\ switchHist = NoSwitch
    /\ lastFetch = NoFetch
    /\ trigger = "timer"
    /\ other = NoPoll
    /\ AuthAtRest
    /\ RunAtRest
    /\ InvoiceCallAtRest

(***************************************************************************)
(* The persistence layer.  A table is a bag of rows: the generated id      *)
(* column is left out, and a row may be held more than once.  Timestamps   *)
(* are whole days, as is the clock.                                        *)
(***************************************************************************)
Days == 0..MaxDay
Dates == 1..MaxDate

\* Alerts.Thresholds of DefaultConfig
Thresholds == <<75, 90, 100>>

\* retention_days as configured: a short retention, or the default
RetentionChoices == {1, DefaultRetentionDays}

\* the rows of a table that a WHERE clause selects
Where(table, rows) == [r \in rows \cap DOMAIN table |-> table[r]]

\* INSERT INTO table VALUES row
Insert(table, row) == table (+) SetToBag({row})

\* an insert that takes no notice of the table's UNIQUE constraint
InsertBlindly(table, row, conflict) == Insert(table, row)

\* an insert that replaces the usage event of the same natural key
InsertOrReplace(table, row, conflict) ==
    LET key(r) == <<r.event_date, r.model, r.kind, r.total_tokens>>
        others == {r \in DOMAIN table : key(r) # key(row)}
    IN  Insert([r \in others |-> table[r]], row)

\* INSERT OR IGNORE INTO table VALUES row; `conflict` says that the row breaks
\* the table's UNIQUE constraint
InsertOrIgnore(table, row, conflict) ==
    IF conflict THEN table ELSE Insert(table, row)

\* migrations.go:28: UNIQUE(alert_type, threshold_value, billing_cycle)
AlertKey(r) == <<r.alert_type, r.threshold_value, r.billing_cycle>>

\* a row with the key of `row` is already held
AlertConflict(ledger, row) == \E r \in DOMAIN ledger : AlertKey(r) = AlertKey(row)

\* storage: SELECT COUNT(*) FROM alerts_sent WHERE ... ; return count > 0
AlertAlreadySentIn(ledger, alertType, thresholdValue, billingCycle) ==
    BagCardinality(Where(ledger, {r \in DOMAIN ledger :
        AlertKey(r) = <<alertType, thresholdValue, billingCycle>>})) > 0

\* storage: INSERT OR IGNORE INTO alerts_sent (timestamp, alert_type, ...)
\* a ledger that keeps the row of the latest alert only
RecordLatestOnly(ledger, alertType, thresholdValue, billingCycle, t) ==
    SetToBag({[timestamp |-> t, alert_type |-> alertType,
               threshold_value |-> thresholdValue, billing_cycle |-> billingCycle]})

RecordAlertIn(ledger, alertType, thresholdValue, billingCycle, t) ==
    LET row == [timestamp |-> t, alert_type |-> alertType,
                threshold_value |-> thresholdValue, billing_cycle |-> billingCycle]
    IN  InsertOrIgnore(ledger, row, AlertConflict(ledger, row))

\* the four deletes of CleanupOldData, of which the first `done` succeed
NotNewerThan(column, cutoffStr) == column <= cutoffStr

\* "WHERE timestamp < ?" and "WHERE fetched_at < ?" of CleanupOldData
OlderThan(column, cutoffStr) == column < cutoffStr

CleanupTables(done, cutoff) ==
    <<IF done >= 1 THEN Where(usage_snapshots,
                             {r \in DOMAIN usage_snapshots : ~OlderThan(r.timestamp, cutoff)})
                   ELSE usage_snapshots,
      IF done >= 2 THEN Where(alerts_sent,
                             {r \in DOMAIN alerts_sent : ~OlderThan(r.timestamp, cutoff)})
                   ELSE alerts_sent,
      IF done >= 3 THEN Where(invoice_items,
                             {r \in DOMAIN invoice_items : ~OlderThan(r.fetched_at, cutoff)})
                   ELSE invoice_items,
      IF done >= 4 THEN Where(usage_events,
                             {r \in DOMAIN usage_events : ~OlderThan(r.fetched_at, cutoff)})
                   ELSE usage_events>>

\* a day passes; a poll cycle takes no time on this clock
Tick ==
    /\ pc = "idle"
    /\ now < MaxDay
    /\ now' = now + 1
    /\ lastCall' = NoCall
    /\ UNCHANGED <<retentionDays, tables, tx, fvars, pvars>>

\* the (threshold, billing cycle) pairs the storage API is called with: two
\* thresholds of one cycle, and one of them in another cycle
LedgerKeys ==
    {<<Thresholds[1], 1>>, <<Thresholds[2], 1>>, <<Thresholds[1], MaxDate>>}

\* Storage.AlertAlreadySent, called as the tests call it; the query may fail
AlertAlreadySent ==
    \E k \in LedgerKeys, fault \in BOOLEAN :
      LET th == k[1]
          c == k[2]
      IN
        /\ lastCall' = [op |-> "AlertAlreadySent", key |-> <<"threshold", th, c>>,
                        fault |-> fault, err |-> fault,
                        result |-> ~fault /\ AlertAlreadySentIn(alerts_sent, "threshold", th, c)]
        /\ UNCHANGED <<now, retentionDays, tables, tx, fvars, pvars>>

\* Storage.RecordAlert, called as the tests call it; the statement may fail
RecordAlert ==
    \E k \in LedgerKeys, fault \in BOOLEAN :
      LET th == k[1]
          c == k[2]
      IN
        /\ alerts_sent' = IF fault THEN alerts_sent
                          ELSE RecordAlertIn(alerts_sent, "threshold", th, c, now)
        /\ lastCall' = [op |-> "RecordAlert", key |-> <<"threshold", th, c>>,
                        fault |-> fault, err |-> fault, result |-> FALSE]
        /\ UNCHANGED <<now, retentionDays, usage_snapshots, invoice_items, usage_events,
                       tx, fvars, pvars>>

\* Storage.CleanupOldData(retentionDays): four deletes with one cutoff; the
\* first that fails returns, leaving the later tables as they were
CleanupOldData ==
    \E done \in 0..4 :
        LET cutoff == now - retentionDays
            after == CleanupTables(done, cutoff)
        IN  /\ usage_snapshots' = after[1]
            /\ alerts_sent' = after[2]
            /\ invoice_items' = after[3]
            /\ usage_events' = after[4]
            /\ lastCall' = [op |-> "CleanupOldData", key |-> <<>>,
                            fault |-> done < 4, err |-> done < 4, result |-> FALSE]
            /\ UNCHANGED <<now, retentionDays, tx, fvars, pvars>>

LedgerInit ==
    /\ pageSize = DefaultPageSize /\ FetcherAtRest /\ MonitorAtRest
    /\ now = 0
    /\ retentionDays \in RetentionChoices
    /\ usage_snapshots = EmptyBag
    /\ alerts_sent = EmptyBag
    /\ invoice_items = EmptyBag
    /\ usage_events = EmptyBag
    /\ tx = NoTx
    /\ lastCall = NoCall

LedgerNext == Tick \/ AlertAlreadySent \/ RecordAlert \/ CleanupOldData

\* the alert ledger, driven through the storage API
LedgerSpec == LedgerInit /\ [][LedgerNext]_vars

(***************************************************************************)
(* Retention: the storage API on a database that earlier runs filled, in   *)
(* all four tables, with rows older than the retention period, as old as   *)
(* it and younger.                                                         *)
(***************************************************************************)
\* the ages, in days, of the rows found at the start
Ages == {DefaultRetentionDays + 10, DefaultRetentionDays, 10}

\* the rows written at time t, one per table
SnapshotAt(t) ==
    [timestamp |-> t, seq |-> 1, billing_cycle_start |-> (t \div CycleDays) * CycleDays,
     is_on_demand |-> FALSE, on_demand_spend_cents |-> 0]
AlertAt(t) ==
    [timestamp |-> t, alert_type |-> "threshold", threshold_value |-> Thresholds[1],
     billing_cycle |-> (t \div CycleDays) * CycleDays]
ItemAt(t) ==
    [billing_cycle |-> (t \div CycleDays) * CycleDays, model_name |-> "claude-4-sonnet",
     request_count |-> 100, cost_cents |-> 1000, is_discounted |-> FALSE,
     fetched_at |-> t]
EventAt(t) ==
    [event_date |-> [day |-> t, sec |-> 0], billing_cycle |-> (t \div CycleDays) * CycleDays, kind |-> "Included",
     model |-> "claude-4-sonnet", total_tokens |-> 10, cost |-> 1, fetched_at |-> t]

RetentionInit ==
    /\ pageSize = DefaultPageSize /\ FetcherAtRest /\ MonitorAtRest
    /\ now = 0
    /\ retentionDays \in RetentionChoices
    /\ usage_snapshots = SetToBag({SnapshotAt(-age) : age \in Ages})
    /\ alerts_sent = SetToBag({AlertAt(-age) : age \in Ages})
    /\ invoice_items = SetToBag({ItemAt(-age) : age \in Ages})
    /\ usage_events = SetToBag({EventAt(-age) : age \in Ages})
    /\ tx = NoTx
    /\ lastCall = NoCall

RetentionSpec == RetentionInit /\ [][LedgerNext]_vars

(***************************************************************************)
(* Usage events.  An event date is an instant [day, ms]; only the id       *)
(* column of a row is left out.                                            *)
(***************************************************************************)
\* EventDate.Format(time.RFC3339): the instant to the second, so its
\* milliseconds are dropped (every instant of the model lies in the first
\* second of its day)
FormatRFC3339(t) == [day |-> t.day, sec |-> t.ms \div 1000]

\* eventDate.Format("2006-01-02")
FormatDate(t) == t.day

UsageEvent(day, ms, kind, cost) ==
    [EventDate |-> [day |-> day, ms |-> ms], Kind |-> kind, Model |-> "claude-4-sonnet",
     TotalTokens |-> 10, Cost |-> cost]

\* The events the remote source and the CSV export hold: an event, the same
\* event with a later cost, an event half a second after it, an on-demand
\* event of the same date, and an event of another date.
UsageEvents ==
    {UsageEvent(1, 0, "Included", 1), UsageEvent(1, 0, "Included", 2),
     UsageEvent(1, 500, "Included", 1), UsageEvent(1, 0, "On-Demand", 1),
     UsageEvent(MaxDate, 0, "Included", 1)}

\* the slices of events one call is given
Batches == UNION {[1..n -> UsageEvents] : n \in 1..MaxBatch}

\* migrations.go:57: UNIQUE(event_date, model, kind, total_tokens)
EventKey(r) == <<r.event_date, r.model, r.kind, r.total_tokens>>

\* a row with the key of `row` is already held
EventConflict(table, row) == \E r \in DOMAIN table : EventKey(r) = EventKey(row)

\* the row SaveUsageEvents writes for an event: the cycle is the parameter
EventRow(billingCycle, e, t) ==
    [event_date |-> FormatRFC3339(e.EventDate), billing_cycle |-> billingCycle,
     kind |-> e.Kind, model |-> e.Model, total_tokens |-> e.TotalTokens,
     cost |-> e.Cost, fetched_at |-> t]

\* the loop of SaveUsageEvents: INSERT OR IGNORE of every event, in order
RECURSIVE InsertEvents(_, _, _, _)
InsertEvents(table, billingCycle, events, t) ==
    IF events = <<>> THEN table
    ELSE LET row == EventRow(billingCycle, Head(events), t)
         IN  InsertEvents(InsertOrIgnore(table, row, EventConflict(table, row)),
                          billingCycle, Tail(events), t)

\* the natural keys of a slice that the table does not hold yet
NewKeys(table, events) ==
    {EventKey(EventRow(0, events[i], 0)) : i \in DOMAIN events}
        \ {EventKey(r) : r \in DOMAIN table}

\* csv.go:119-125: the events of the slice whose own date is `cycle`
CycleEvents(events, cycle) ==
    SelectSeq(events, LAMBDA e : FormatDate(e.EventDate) = cycle)

\* csv.go:119-132: SaveUsageEvents for every cycle of `cycles`
RECURSIVE ImportCycles(_, _, _, _)
ImportCycles(table, events, cycles, t) ==
    IF cycles = {} THEN table
    ELSE LET c == CHOOSE x \in cycles : TRUE
         IN  ImportCycles(InsertEvents(table, c, CycleEvents(events, c), t),
                          events, cycles \ {c}, t)

\* Storage.SaveUsageEvents(billingCycle, events) as poll calls it: one
\* transaction, which any failing statement rolls back
SaveUsageEvents ==
    \E c \in Dates, events \in Batches, fault \in BOOLEAN :
        /\ usage_events' = IF fault THEN usage_events
                           ELSE InsertEvents(usage_events, c, events, now)
        /\ lastCall' = [op |-> "SaveUsageEvents", key |-> <<>>, fault |-> fault,
                        err |-> fault, result |-> FALSE,
                        newKeys |-> Cardinality(NewKeys(usage_events, events))]
        /\ UNCHANGED <<now, retentionDays, usage_snapshots, alerts_sent, invoice_items,
                       tx, fvars, pvars>>

\* ImportUsageEventsCSV: the rows are grouped by their own date and every
\* group is saved in its own transaction, in the order the map yields them;
\* the first save that fails ends the import after the groups in `saved`
ImportUsageEventsCSV ==
    \E events \in Batches :
        LET billingCycles == {FormatDate(events[i].EventDate) : i \in DOMAIN events}
        IN  \E saved \in SUBSET billingCycles :
                /\ usage_events' = ImportCycles(usage_events, events, saved, now)
                /\ lastCall' = [op |-> "ImportUsageEventsCSV", key |-> <<>>,
                                fault |-> saved # billingCycles,
                                err |-> saved # billingCycles, result |-> FALSE,
                                newKeys |-> Cardinality(NewKeys(usage_events, events))]
                /\ UNCHANGED <<now, retentionDays, usage_snapshots, alerts_sent,
                               invoice_items, tx, fvars, pvars>>

EventNext == SaveUsageEvents \/ ImportUsageEventsCSV

\* Storage.SaveUsageEvents as poll calls it, under the cycle of the usage
\* view, on the events a fetch has returned, which `remote` keeps: the same
\* events may come again, at another cost
SaveFetchedEvents ==
    \E events \in Batches, fault \in BOOLEAN :
        /\ usage_events' = IF fault THEN usage_events
                           ELSE InsertEvents(usage_events, usageData.BillingCycleStart,
                                             events, now)
        /\ lastCall' = [op |-> "SaveUsageEvents", key |-> <<>>, fault |-> fault,
                        err |-> fault, result |-> FALSE,
                        newKeys |-> Cardinality(NewKeys(usage_events, events))]
        /\ remote' = [remote EXCEPT !.UsageEvents = events]
        /\ UNCHANGED <<now, retentionDays, usage_snapshots, alerts_sent, invoice_items,
                       tx, fvars, pc, usageData, invoiceData, deliveries, lastEval,
                       switchHist, lastFetch, cvars>>

RefetchNext == SaveFetchedEvents

EventInit == pageSize = DefaultPageSize /\ FetcherAtRest /\ StoreAtRest /\ MonitorAtRest

\* the usage_events table, written by the poller and by the CSV import
EventSpec == EventInit /\ [][EventNext]_vars

\* the usage_events table, written with what one fetch after the other returns
RefetchSpec == EventInit /\ [][RefetchNext]_vars

(***************************************************************************)
(* Invoice items.  SaveInvoiceItems runs in a transaction: its statements  *)
(* change the transaction's own view (tx.work), which replaces the         *)
(* committed table at Commit; every other connection reads the committed   *)
(* table.                                                                  *)
(***************************************************************************)
\* the items of TestStorage_InvoiceItems
InvoiceItems ==
    {[ModelName |-> "claude-4-sonnet", RequestCount |-> 100, CostCents |-> 1000],
     [ModelName |-> "gpt-4o", RequestCount |-> 50, CostCents |-> 500]}

\* the item slices poll and FetchHistoricalInvoiceData build for a cycle:
\* never empty, every item carrying the cycle it is saved under
ItemSlices(billingCycle, t) ==
    UNION {[1..n -> {[BillingCycle |-> billingCycle, ModelName |-> i.ModelName,
                      RequestCount |-> i.RequestCount, CostCents |-> i.CostCents,
                      IsDiscounted |-> FALSE, FetchedAt |-> t] : i \in InvoiceItems}] :
           n \in 1..MaxItems}

\* the row the INSERT of SaveInvoiceItems writes for an item
ItemRow(item) ==
    [billing_cycle |-> item.BillingCycle, model_name |-> item.ModelName,
     request_count |-> item.RequestCount, cost_cents |-> item.CostCents,
     is_discounted |-> item.IsDiscounted, fetched_at |-> item.FetchedAt]

\* the rows of a slice of items
RECURSIVE ItemRows(_)
ItemRows(items) ==
    IF items = <<>> THEN EmptyBag ELSE Insert(ItemRows(Tail(items)), ItemRow(Head(items)))

\* a delete that forgets its WHERE clause
DeleteEveryCycle(table, billingCycle) == EmptyBag

\* DELETE FROM invoice_items WHERE billing_cycle = ?
DeleteCycle(table, billingCycle) ==
    Where(table, {r \in DOMAIN table : r.billing_cycle # billingCycle})

\* SELECT ... FROM invoice_items WHERE billing_cycle = ?
ItemsForCycle(table, billingCycle) ==
    Where(table, {r \in DOMAIN table : r.billing_cycle = billingCycle})

\* statements run on the connection, without the transaction
WriteThrough(work) == work

\* what the other connections see while the transaction is open: the
\* committed table, whatever the transaction has done to its own view
Visible(work) == invoice_items

\* what a call of SaveInvoiceItems returned, the step it had reached and the
\* number of rows its cycle held before it
SaveInvoiceItemsReturns(err) ==
    [op |-> "SaveInvoiceItems", key |-> <<>>, fault |-> err, err |-> err, result |-> FALSE,
     at |-> tx.state,
     replaced |-> BagCardinality(ItemsForCycle(tx.before, tx.billingCycle))]

\* the deferred tx.Rollback() of a failing SaveInvoiceItems: the
\* transaction's view is dropped
TxRollback ==
    /\ tx' = NoTx
    /\ lastCall' = SaveInvoiceItemsReturns(TRUE)

\* s.db.Begin() of SaveInvoiceItems(billingCycle, items)
TxBegin ==
    /\ tx.state = "none"
    /\ \E c \in Dates : \E items \in ItemSlices(c, now) : \E ok \in BOOLEAN :
        IF ok
        THEN /\ tx' = [state |-> "begun", billingCycle |-> c, items |-> items,
                       next |-> 1, work |-> invoice_items, before |-> invoice_items]
             /\ lastCall' = NoCall
             /\ UNCHANGED invoice_items
        ELSE /\ lastCall' = SaveInvoiceItemsReturns(TRUE)
             /\ UNCHANGED <<tx, invoice_items>>
    /\ UNCHANGED <<now, retentionDays, usage_snapshots, alerts_sent, usage_events, fvars, pvars>>

\* tx.Exec("DELETE FROM invoice_items WHERE billing_cycle = ?", billingCycle)
TxDelete ==
    /\ tx.state = "begun"
    /\ \E ok \in BOOLEAN :
        IF ok
        THEN LET work == DeleteCycle(tx.work, tx.billingCycle)
             IN  /\ tx' = [tx EXCEPT !.state = "deleted", !.work = work]
                 /\ invoice_items' = Visible(work)
                 /\ lastCall' = NoCall
        ELSE TxRollback /\ UNCHANGED invoice_items
    /\ UNCHANGED <<now, retentionDays, usage_snapshots, alerts_sent, usage_events, fvars, pvars>>

\* tx.Prepare and the loop of stmt.Exec: one item per step
TxInsert ==
    /\ tx.state = "deleted"
    /\ tx.next <= Len(tx.items)
    /\ \E ok \in BOOLEAN :
        IF ok
        THEN LET work == Insert(tx.work, ItemRow(tx.items[tx.next]))
             IN  /\ tx' = [tx EXCEPT !.next = tx.next + 1, !.work = work]
                 /\ invoice_items' = Visible(work)
                 /\ lastCall' = NoCall
        ELSE TxRollback /\ UNCHANGED invoice_items
    /\ UNCHANGED <<now, retentionDays, usage_snapshots, alerts_sent, usage_events, fvars, pvars>>

\* tx.Commit()
TxCommit ==
    /\ tx.state = "deleted"
    /\ tx.next > Len(tx.items)
    /\ \E ok \in BOOLEAN :
        IF ok
        THEN /\ invoice_items' = tx.work
             /\ tx' = NoTx
             /\ lastCall' = SaveInvoiceItemsReturns(FALSE)
        ELSE TxRollback /\ UNCHANGED invoice_items
    /\ UNCHANGED <<now, retentionDays, usage_snapshots, alerts_sent, usage_events, fvars, pvars>>

\* the process stops while the transaction is open: nothing of it was
\* committed, and the database drops the transaction's view
Crash ==
    /\ tx.state # "none"
    /\ tx' = NoTx
    /\ lastCall' = [SaveInvoiceItemsReturns(TRUE) EXCEPT !.op = "crash"]
    /\ UNCHANGED invoice_items
    /\ UNCHANGED <<now, retentionDays, usage_snapshots, alerts_sent, usage_events, fvars, pvars>>

\* Storage.GetInvoiceItemsForCycle on another connection, at any moment
GetInvoiceItemsForCycle ==
    /\ \E c \in Dates :
        lastCall' = [op |-> "GetInvoiceItemsForCycle", key |-> <<c>>, fault |-> FALSE,
                     err |-> FALSE, result |-> FALSE,
                     rows |-> ItemsForCycle(invoice_items, c)]
    /\ UNCHANGED <<now, retentionDays, tables, tx, fvars, pvars>>

InvoiceNext == TxBegin \/ TxDelete \/ TxInsert \/ TxCommit \/ Crash \/ GetInvoiceItemsForCycle

InvoiceInit == pageSize = DefaultPageSize /\ FetcherAtRest /\ StoreAtRest /\ MonitorAtRest

\* the invoice_items table, written by SaveInvoiceItems and read meanwhile
InvoiceSpec == InvoiceInit /\ [][InvoiceNext]_vars

(***************************************************************************)
(* The paginated fetcher.                                                  *)
(***************************************************************************)
PageSizes == (1..MaxPageSize) \cup {DefaultPageSize}

\* the totals of TestPaginationLogic's table
TestTotals == {50, 100, 200, 808}

\* the totals tried with a page size: every fetch of a conforming server ends
\* within MaxPage pages
TotalsFor(size) ==
    {t \in (0..MaxTotal) \cup TestTotals : CeilDiv(t, size) < MaxPage}

\* page++, kept exact up to MaxPage and by parity beyond it
NextPage(p) ==
    IF p < MaxPage THEN p + 1
    ELSE IF p = MaxPage THEN MaxPage + 1 ELSE MaxPage

\* len(allEvents) is kept exact up to EventCap(size), which exceeds every total
\* a response of the model reports (at most (MaxPage - 1) * size + 1)
EventCap(size) == (MaxPage + 1) * (size + 1)
CapEvents(n, size) == Min(n, EventCap(size))

\* The response a conforming server gives to a request for page p: the p-th
\* slice of its events, all well-formed objects, and its total on page 1.
ConformingResp(p, total, size) ==
    [status |-> "ok", hasArray |-> TRUE,
     n |-> Min(size, Max(0, total - (p - 1) * size)),
     bad |-> 0,
     total |-> IF p = 1 THEN Reported(total) ELSE NoTotal]

\* What any server may answer: a non-200 status or transport error ("fail"),
\* a 200 body without a usageEventsDisplay array, or an array of n items of
\* which `bad` are not JSON objects, with or without a total.
Responses(p, total, size) ==
    {ConformingResp(p, total, size)}
    \cup {[status |-> "fail", hasArray |-> FALSE, n |-> 0, bad |-> 0, total |-> NoTotal]}
    \cup {[status |-> "ok", hasArray |-> FALSE, n |-> 0, bad |-> 0, total |-> t] :
            t \in {NoTotal, Reported(total)}}
    \cup {[status |-> "ok", hasArray |-> TRUE, n |-> k, bad |-> b, total |-> t] :
            k \in {0, size - 1, size, size + 1} \cap Nat,
            b \in {0, 1},
            t \in {NoTotal} \cup {Reported(v) : v \in {0, 1, total, total + 1}}}

\* invoice.go:482-494: the total is read on page 1 only, and only when present
RecordTotal(p, resp, old) ==
    IF p = 1 /\ resp.total.present THEN resp.total.value ELSE old

\* a loop exit that also takes a full page for the last one
LastPageOffByOne(count, size) == count <= size

\* invoice.go:612: if pageEventCount < pageSize { break }
LastPage(count, size) == count < size

\* a total check that asks for one event more than the total
FetchedAllStrict(total, fetched) == total > 0 /\ fetched > total

\* invoice.go:616: if totalCount > 0 && len(allEvents) >= totalCount { break }
FetchedAll(total, fetched) == total > 0 /\ fetched >= total

\* invoice.go:421-426: entry of getFilteredUsageEvents; the remote source holds
\* some number of events for the requested range
BeginFetch ==
    /\ fpc \in {"idle", "returned"}
    /\ \E t \in TotalsFor(pageSize) : srvTotal' = t
    /\ fpc' = "loop"
    /\ page' = 1
    /\ allEvents' = 0
    /\ totalCount' = 0
    /\ pageEventCount' = 0
    /\ reportedTotal' = NoTotal
    /\ conforming' = TRUE
    /\ page1Conforming' = TRUE
    /\ invResult' = [events |-> 0, err |-> FALSE]
    /\ UNCHANGED <<pageSize, svars, pvars>>

\* invoice.go:429-623: one iteration of the page loop
FetchPage ==
    /\ fpc = "loop"
    /\ \E resp \in Responses(page, srvTotal, pageSize) :
        LET isConf == resp = ConformingResp(page, srvTotal, pageSize)
            fetched == CapEvents(allEvents + (resp.n - Min(resp.bad, resp.n)), pageSize)
            total == RecordTotal(page, resp, totalCount)
        IN  /\ conforming' = (conforming /\ isConf)
            /\ page1Conforming' = IF page = 1 THEN isConf ELSE page1Conforming
            /\ IF resp.status = "fail"
               THEN \* lines 458-467: return nil, err
                    /\ fpc' = "error"
                    /\ UNCHANGED <<page, allEvents, totalCount, pageEventCount,
                                   reportedTotal>>
               ELSE /\ totalCount' = total
                    /\ reportedTotal' = IF page = 1 THEN resp.total ELSE reportedTotal
                    /\ IF ~resp.hasArray
                       THEN \* lines 497-503: break
                            /\ fpc' = "done"
                            /\ pageEventCount' = 0
                            /\ UNCHANGED <<page, allEvents>>
                       ELSE /\ pageEventCount' = resp.n
                            /\ allEvents' = fetched
                            /\ IF LastPage(resp.n, pageSize) \/ FetchedAll(total, fetched)
                               THEN fpc' = "done" /\ page' = page
                               ELSE fpc' = "loop" /\ page' = NextPage(page)
    /\ UNCHANGED <<pageSize, srvTotal, invResult, svars, pvars>>

\* invoice.go:216-240: GetMonthlyInvoiceWithCycle takes the events when the
\* fetch returned no error and at least one event, and returns a nil error
ReturnToCaller ==
    /\ fpc \in {"done", "error"}
    /\ invResult' = [events |-> IF fpc = "done" /\ allEvents > 0 THEN allEvents ELSE 0,
                     err |-> FALSE]
    /\ fpc' = "returned"
    /\ UNCHANGED <<pageSize, srvTotal, page, allEvents, totalCount, pageEventCount,
                   reportedTotal, conforming, page1Conforming, svars, pvars>>

FetchNext == BeginFetch \/ FetchPage \/ ReturnToCaller

FInit == pageSize \in PageSizes /\ FetcherAtRest /\ StoreAtRest /\ MonitorAtRest

FetchSpec == FInit /\ [][FetchNext]_vars

\* the page loop is a running goroutine: it keeps taking steps
FairFetchSpec == FetchSpec /\ WF_vars(FetchNext)

(***************************************************************************)
(* The poll cycle (Monitor.poll) and the alert engine.  The remote source  *)
(* is the environment: here it reports a usage percentage for the billing  *)
(* cycle the clock lies in, included usage only, and no invoice data.      *)
(***************************************************************************)
\* the usage percentages the poll resolves: below every threshold, on the
\* lowest threshold, on the highest
UsagePcts == {50, Thresholds[1], Thresholds[3]}

\* the start of the billing cycle that day t lies in
CycleStart(t) == (t \div CycleDays) * CycleDays

\* a loop body that writes the ledger before it delivers
RecordBeforeSend == <<"check", "record", "send">>

\* the body of the loop of CheckThresholdAlert, in the order it runs: the
\* ledger query, the delivery, the ledger insert
AlertSteps == <<"check", "send", "record">>

\* the call that fails in an evaluation: step `step` of the threshold with
\* index `at`, or none (at = 0)
AlertFaults ==
    {[at |-> 0, step |-> "none"]}
        \cup [at : 1..Len(Thresholds), step : {"check", "send", "record"}]

\* a comparison that lets usage exactly on a threshold pass unnoticed
CrossedStrictly(usagePct, threshold) == usagePct.num > threshold * usagePct.den

\* if usagePct >= threshold
Crossed(usagePct, threshold) == usagePct.num >= threshold * usagePct.den

\* CheckThresholdAlert from step k of threshold i on; acc is what the
\* evaluation has done so far
RECURSIVE EvalThresholds(_, _, _, _, _, _, _)
EvalThresholds(i, k, usagePct, billingCycle, fault, t, acc) ==
    IF i > Len(Thresholds) THEN acc
    ELSE IF k > Len(AlertSteps) \/ ~Crossed(usagePct, Thresholds[i])
    THEN EvalThresholds(i + 1, 1, usagePct, billingCycle, fault, t, acc)
    ELSE
      LET threshold == Thresholds[i]
          step == AlertSteps[k]
          fails == fault.at = i /\ fault.step = step
          stopped == [acc EXCEPT !.err = TRUE, !.stoppedAt = i, !.stoppedStep = step]
      IN
        CASE step = "check" ->
                IF fails THEN stopped
                ELSE IF AlertAlreadySentIn(acc.ledger, "threshold", threshold, billingCycle)
                THEN EvalThresholds(i + 1, 1, usagePct, billingCycle, fault, t, acc)
                ELSE EvalThresholds(i, k + 1, usagePct, billingCycle, fault, t, acc)
          [] step = "send" ->
                IF fails
                THEN [stopped EXCEPT !.attempted = @ \cup {threshold},
                                     !.sendFailed = @ \cup {threshold}]
                ELSE EvalThresholds(i, k + 1, usagePct, billingCycle, fault, t,
                        [acc EXCEPT !.attempted = @ \cup {threshold},
                                    !.delivered = @ \cup {threshold}])
          [] step = "record" ->
                IF fails THEN stopped
                ELSE EvalThresholds(i, k + 1, usagePct, billingCycle, fault, t,
                        [acc EXCEPT !.ledger =
                            RecordAlertIn(@, "threshold", threshold, billingCycle, t)])

\* AlertEngine.CheckThresholdAlert(usagePct, thresholds, billingCycle, ...)
CheckThresholdAlert(ledger, usagePct, billingCycle, fault, t) ==
    EvalThresholds(1, 1, usagePct, billingCycle, fault, t,
        [ledger |-> ledger, attempted |-> {}, delivered |-> {}, sendFailed |-> {},
         stoppedAt |-> 0, stoppedStep |-> "none", err |-> FALSE])

CheckOnDemandNow(currentIsOnDemand, previousIsOnDemand) == currentIsOnDemand

\* AlertEngine.CheckOnDemandSwitch: whether the notification is sent
CheckOnDemandSwitch(currentIsOnDemand, previousIsOnDemand) ==
    currentIsOnDemand /\ ~previousIsOnDemand

Older(x, r) ==
    \/ x.timestamp < r.timestamp
    \/ x.timestamp = r.timestamp /\ x.seq < r.seq

\* x comes before r in ORDER BY timestamp DESC
Newer(x, r) ==
    \/ x.timestamp > r.timestamp
    \/ x.timestamp = r.timestamp /\ x.seq > r.seq

\* ORDER BY timestamp DESC LIMIT 1 OFFSET offset: the rows that may stand at
\* that place, the order among rows of one timestamp being the database's
\* choice; none when the table holds too few rows
SnapshotsAt(table, offset) ==
    {r \in DOMAIN table :
        LET before == BagCardinality(Where(table, {x \in DOMAIN table : Newer(x, r)}))
            same == BagCardinality(Where(table,
                        {x \in DOMAIN table : ~Newer(x, r) /\ ~Newer(r, x)}))
        IN  before <= offset /\ offset < before + same}

\* GetLatestSnapshot: ORDER BY timestamp DESC LIMIT 1
LatestSnapshots(table) == SnapshotsAt(table, 0)

\* GetPreviousSnapshot: ORDER BY timestamp DESC LIMIT 1 OFFSET 1
PreviousSnapshots(table) == SnapshotsAt(table, 1)

\* a delivery, successful or failed, of the notification of a threshold
Delivery(threshold, billingCycle, ok) ==
    [threshold |-> threshold, billing_cycle |-> billingCycle, ok |-> ok]

\* a delivery that was made and whose recordAlert then failed
RecordFailure(threshold, billingCycle) ==
    [threshold |-> threshold, billing_cycle |-> billingCycle, ok |-> FALSE,
     recorded |-> FALSE]

\* the thresholds an evaluation delivered and then failed to record
Unrecorded(eval) ==
    IF eval.stoppedStep = "record"
    THEN {Thresholds[eval.stoppedAt]} \cap eval.delivered
    ELSE {}

\* the deliveries of an evaluation, added to those made so far: successful
\* deliveries are counted; a failed delivery and a failed recording are
\* remembered once
Delivered(sofar, eval, billingCycle) ==
    sofar (+) SetToBag({Delivery(th, billingCycle, TRUE) : th \in eval.delivered})
          (+) SetToBag({Delivery(th, billingCycle, FALSE) : th \in eval.sendFailed}
                           \ DOMAIN sofar)
          (+) SetToBag({RecordFailure(th, billingCycle) : th \in Unrecorded(eval)}
                           \ DOMAIN sofar)

\* GetUsage: the usage view of a response that reports requestsUsed of
\* maxRequestUsage requests (0: none reported) for the cycle begun at
\* billingStart
GetUsage(billingStart, requestsUsed, maxRequestUsage) ==
    LET limit == IF maxRequestUsage = 0 THEN DefaultLimit ELSE maxRequestUsage
    IN  [BillingCycleStart |-> billingStart,
         PremiumRequestsUsed |-> requestsUsed,
         PremiumRequestsLimit |-> limit,
         UsagePercentage |-> IF limit > 0 THEN Ratio(requestsUsed * 100, limit)
                                          ELSE Ratio(0, 1),
         IsOnDemand |-> requestsUsed >= limit,
         OnDemandSpendCents |-> 0]

\* The description of an invoice item is the sequence of its words, as the
\* blanks divide it.  A word has its text, without the comma that may end it,
\* and, when it is all digits, the number it spells.
Word(text) == [text |-> text, comma |-> FALSE, digits |-> FALSE, value |-> 0]
WordComma(text) == [text |-> text, comma |-> TRUE, digits |-> FALSE, value |-> 0]
Num(n) == [text |-> ToString(n), comma |-> FALSE, digits |-> TRUE, value |-> n]

\* strings.ToLower, on the words that descriptions are made of here
ToLower(text) ==
    CASE text = "Mid-month" -> "mid-month"
      [] text = "MID-MONTH" -> "mid-month"
      [] text = "USAGE" -> "usage"
      [] text = "PAID" -> "paid"
      [] text = "Some" -> "some"
      [] OTHER -> text

\* the longest run of [\w.-] that a word starts with, on the words that
\* descriptions are made of here
WordPrefix(text) ==
    CASE text = "totalling:" -> "totalling"
      [] text = "$12.50" -> ""
      [] text = "(discount)" -> ""
      [] OTHER -> text

\* contains(s, substr) of invoice.go, for a phrase of whole words: both sides
\* are lowered before they are compared
Contains(description, phrase) ==
    \E i \in 0..Len(description) :
        /\ i + Len(phrase) <= Len(description)
        /\ \A j \in 1..Len(phrase) :
              /\ ToLower(description[i + j].text) = ToLower(phrase[j])
              /\ j < Len(phrase) => ~description[i + j].comma

MidMonthPhrase == <<"Mid-month", "usage", "paid">>

\* "^(\d+)\s+": the description starts with a number, then a blank
StartsWithCount(d) == Len(d) >= 2 /\ d[1].digits /\ ~d[1].comma

\* the place of the last word of the model in a description that
\* tokenBasedPattern matches, 0 when it does not match: the count, the words
\* "token-based usage calls to", then the model, which no comma interrupts and
\* which ", totalling" or the end of the description follows
TokenBasedEnd(d) ==
    IF ~(/\ Len(d) >= 6 /\ StartsWithCount(d)
         /\ \A j \in 2..5 : ~d[j].comma
         /\ <<d[2].text, d[3].text, d[4].text, d[5].text>> =
                <<"token-based", "usage", "calls", "to">>)
    THEN 0
    ELSE LET commas == {k \in 6..Len(d) : d[k].comma}
         IN  IF commas = {} THEN Len(d)
             ELSE LET k == CHOOSE c \in commas : \A o \in commas : c <= o
                  IN  IF k < Len(d) /\ WordPrefix(d[k + 1].text) = "totalling"
                      THEN k ELSE 0

\* the words i..k of a description, with one blank between them
RECURSIVE JoinWords(_, _, _)
JoinWords(d, i, k) ==
    IF i = k THEN d[i].text ELSE d[i].text \o " " \o JoinWords(d, i + 1, k)

\* api.ParseInvoiceItem: tokenBasedPattern, then fallbackPattern
\* "^(\d+)\s+([\w.-]+)", then the error
ParseInvoiceItem(item) ==
    LET d == item.Description
    IN  IF TokenBasedEnd(d) > 0
        THEN [modelName |-> JoinWords(d, 6, TokenBasedEnd(d)),
              requestCount |-> d[1].value, err |-> FALSE]
        ELSE IF StartsWithCount(d) /\ WordPrefix(d[2].text) # ""
        THEN [modelName |-> WordPrefix(d[2].text),
              requestCount |-> d[1].value, err |-> FALSE]
        ELSE [modelName |-> "unknown", requestCount |-> 0, err |-> TRUE]

\* a total that leaves no item out: the sum of all the positive amounts
RECURSIVE TotalCents(_)
TotalCents(items) ==
    IF items = <<>> THEN 0
    ELSE (IF Head(items).Cents > 0 THEN Head(items).Cents ELSE 0)
            + TotalCents(Tail(items))

\* tryGetInvoice: the on-demand total of the items of a response, the sum of
\* the positive amounts that are not mid-month payments
RECURSIVE TotalOnDemandCents(_)
TotalOnDemandCents(items) ==
    IF items = <<>> THEN 0
    ELSE (IF ~Contains(Head(items).Description, MidMonthPhrase) /\ Head(items).Cents > 0
          THEN Head(items).Cents ELSE 0) + TotalOnDemandCents(Tail(items))

\* tryGetInvoice: the invoice data made of the items and events of a response
InvoiceOf(items, events) ==
    [Items |-> items, UsageEvents |-> events,
     TotalOnDemandCents |-> TotalOnDemandCents(items),
     IsOnDemand |-> TotalOnDemandCents(items) > 0]

\* storedTotal of poll: the sum of CostCents over the stored rows
RECURSIVE SumCostCents(_)
SumCostCents(rows) ==
    IF rows = EmptyBag THEN 0
    ELSE LET r == CHOOSE x \in DOMAIN rows : TRUE
         IN  rows[r] * r.cost_cents
                + SumCostCents([x \in DOMAIN rows \ {r} |-> rows[x]])

RemoteTotalOnly(invoiceTotal, storedItems) == invoiceTotal

\* a running total that is the sum of the stored items alone
StoredTotalOnly(invoiceTotal, storedItems) ==
    IF storedItems.ok THEN SumCostCents(storedItems.rows) ELSE 0

\* runningOnDemandCents of poll: the invoice total, or the stored total when
\* the stored items of the cycle could be read and come to more
RunningOnDemandCents(invoiceTotal, storedItems) ==
    IF storedItems.ok /\ BagCardinality(storedItems.rows) > 0
    THEN Max(invoiceTotal, SumCostCents(storedItems.rows))
    ELSE invoiceTotal

IncludedStored(invoice, storedEvents) ==
    IF storedEvents.ok
    THEN BagCardinality(Where(storedEvents.rows,
            {r \in DOMAIN storedEvents.rows : r.kind = "Included"}))
    ELSE 0

\* includedCount of poll: the events of kind Included among those fetched,
\* or among those stored for the cycle when none was fetched
IncludedCount(invoice, storedEvents) ==
    IF Len(invoice.UsageEvents) > 0
    THEN Len(SelectSeq(invoice.UsageEvents, LAMBDA e : e.Kind = "Included"))
    ELSE IF storedEvents.ok
    THEN BagCardinality(Where(storedEvents.rows,
            {r \in DOMAIN storedEvents.rows : r.kind = "Included"}))
    ELSE 0

\* poll, "Update on-demand status from invoice data" to "Create snapshot":
\* the usage view resolved from the coarse counter, the invoice data and the
\* stored items and events of the cycle
ResolveUsage(usage, invoice, storedItems, storedEvents) ==
    LET u == [usage EXCEPT
                !.IsOnDemand = invoice.IsOnDemand,
                !.OnDemandSpendCents =
                    RunningOnDemandCents(invoice.TotalOnDemandCents, storedItems)]
        limit == u.PremiumRequestsLimit
        includedCount == IncludedCount(invoice, storedEvents)
        full == [u EXCEPT !.UsagePercentage = Ratio(100, 1),
                          !.PremiumRequestsUsed = limit]
    IN  IF u.IsOnDemand /\ u.PremiumRequestsUsed = 0
        THEN IF includedCount > 0
             THEN [u EXCEPT !.PremiumRequestsUsed = includedCount,
                            !.UsagePercentage =
                                IF limit > 0 THEN Ratio(includedCount * 100, limit)
                                             ELSE Ratio(100, 1)]
             ELSE full
        ELSE IF u.IsOnDemand /\ u.PremiumRequestsUsed < limit
        THEN full
        ELSE u

\* the requests-used count that makes the usage pct percent of the default limit
UsedFor(pct) == (pct * DefaultLimit) \div 100

\* What the monitor of Spec meets: included usage below, on and above the
\* thresholds, no invoice data, a store that can be read, and an alert
\* evaluation in which any one call may fail.
SpecEnv ==
    [used |-> {UsedFor(pct) : pct \in UsagePcts},
     limits |-> {0},
     items |-> {<<>>},
     events |-> {<<>>},
     tokens |-> {<<TRUE, TRUE, TRUE>>},
     usages |-> {<<"ok", "ok">>, <<"failed", "ok">>},
     invoice |-> {"ok"},
     readOk |-> {TRUE},
     faults |-> AlertFaults,
     onDemandCritical |-> {TRUE},
     maxSnapshots |-> MaxSnapshots]

\* poll, "Get session token" to "Fetch usage data": what the cycle does when
\* the reads of the token turn out as tokens (in the order they are made) and
\* the calls of GetUsage as usages.  RefreshToken only clears the cached
\* token, so that the next GetToken reads the database again.
FetchUsage(tokens, usages) ==
    LET first == tokens[1]
        reads == IF first THEN 1 ELSE 2
        refreshes == IF first THEN 0 ELSE 1
        done(ok, err, r, t, u) ==
            [ok |-> ok, err |-> err, refreshes |-> r,
             authRefreshes |-> r - refreshes, tokenReads |-> t,
             usageCalls |-> u, usageUnauthorized |-> u > 0 /\ usages[1] = "unauthorized"]
    IN  IF ~first /\ ~tokens[2]
        THEN done(FALSE, "getting session token", 1, 2, 0)
        ELSE IF usages[1] = "ok"
        THEN done(TRUE, "none", refreshes, reads, 1)
        ELSE IF usages[1] = "unauthorized"
        THEN IF ~tokens[reads + 1]
             THEN done(FALSE, "getting token after refresh failed",
                       refreshes + 1, reads + 1, 1)
             ELSE IF usages[2] = "ok"
             THEN done(TRUE, "none", refreshes + 1, reads + 1, 2)
             ELSE done(FALSE, "fetching usage after token refresh",
                       refreshes + 1, reads + 1, 2)
        ELSE done(FALSE, "fetching usage", refreshes, reads, 1)

\* poll, up to the snapshot: the token, GetUsage, the invoice and the
\* resolution of the usage view; a failure of the first two ends the cycle,
\* a failure of the invoice fetch, of whatever kind, leaves the cycle with
\* empty invoice data
PollFetchIn(env) ==
    /\ pc = "idle"
    /\ BagCardinality(usage_snapshots) < env.maxSnapshots
    /\ \E tokens \in env.tokens, usages \in env.usages, used \in env.used,
          maxRequestUsage \in env.limits, fetched \in env.invoice,
          readOk \in env.readOk :
        LET f == FetchUsage(tokens, usages)
            fetch == [ran |-> TRUE, ok |-> f.ok, err |-> f.err,
                      refreshes |-> f.refreshes, authRefreshes |-> f.authRefreshes,
                      tokenReads |-> f.tokenReads,
                      usageCalls |-> f.usageCalls,
                      usageUnauthorized |-> f.usageUnauthorized,
                      invoice |-> "none", invoiceCalls |-> 0,
                      requestsUsed |-> 0, readOk |-> FALSE]
        IN  IF f.ok
            THEN LET usage == GetUsage(CycleStart(now), used, maxRequestUsage)
                     invoice == IF fetched = "ok"
                                THEN InvoiceOf(remote.Items, remote.UsageEvents)
                                ELSE NoInvoice
                     billingCycleStr == usage.BillingCycleStart
                     storedItems == [ok |-> readOk,
                                     rows |-> ItemsForCycle(invoice_items, billingCycleStr)]
                     storedEvents == [ok |-> readOk,
                                      rows |-> Where(usage_events,
                                          {r \in DOMAIN usage_events :
                                              r.billing_cycle = billingCycleStr})]
                 IN  /\ usageData' = ResolveUsage(usage, invoice, storedItems, storedEvents)
                     /\ invoiceData' = invoice
                     /\ lastFetch' = [fetch EXCEPT !.invoice = fetched,
                                                   !.invoiceCalls = 1,
                                                   !.requestsUsed = used,
                                                   !.readOk = readOk]
                     /\ pc' = "snapshot"
            ELSE /\ lastFetch' = fetch
                 /\ UNCHANGED <<pc, usageData, invoiceData>>
    /\ lastEval' = NoEval
    /\ lastCall' = NoCall
    /\ UNCHANGED <<now, retentionDays, tables, tx, deliveries, remote, switchHist, cvars, fvars>>

PollFetch == PollFetchIn(SpecEnv)

\* the poll cycle is over: its locals are gone
EndPoll ==
    /\ pc' = "idle"
    /\ usageData' = NoUsage
    /\ invoiceData' = NoInvoice

\* the place of a new row in the order of time among the rows of its day
NextSeq(table) ==
    IF table = EmptyBag THEN 1
    ELSE 1 + CHOOSE n \in {r.seq : r \in DOMAIN table} :
                \A r \in DOMAIN table : r.seq <= n

\* a store that keeps the snapshot of the last cycle only
PollReplaceSnapshot ==
    /\ pc = "snapshot"
    /\ \E ok \in BOOLEAN :
        IF ok
        THEN /\ usage_snapshots' = SetToBag(
                    {[timestamp |-> now, seq |-> NextSeq(usage_snapshots),
                      billing_cycle_start |-> usageData.BillingCycleStart,
                      is_on_demand |-> usageData.IsOnDemand,
                      on_demand_spend_cents |-> usageData.OnDemandSpendCents]})
             /\ pc' = "alerts"
             /\ UNCHANGED <<usageData, invoiceData>>
        ELSE EndPoll /\ UNCHANGED usage_snapshots
    /\ lastCall' = NoCall
    /\ UNCHANGED <<now, retentionDays, alerts_sent, invoice_items, usage_events, tx,
                   deliveries, lastEval, hvars, cvars, fvars>>

\* m.storage.SaveUsageSnapshot(snapshot); a failure ends the cycle.  The row
\* keeps the columns that the poll cycle reads back; its timestamp is the day
\* and, as poll cycles are more than a second apart, its place in the day.
PollSaveSnapshot ==
    /\ pc = "snapshot"
    /\ \E ok \in BOOLEAN :
        IF ok
        THEN /\ usage_snapshots' = Insert(usage_snapshots,
                    [timestamp |-> now, seq |-> NextSeq(usage_snapshots),
                     billing_cycle_start |-> usageData.BillingCycleStart,
                     is_on_demand |-> usageData.IsOnDemand,
                     on_demand_spend_cents |-> usageData.OnDemandSpendCents])
             /\ pc' = "alerts"
             /\ UNCHANGED <<usageData, invoiceData>>
        ELSE EndPoll /\ UNCHANGED usage_snapshots
    /\ lastCall' = NoCall
    /\ UNCHANGED <<now, retentionDays, alerts_sent, invoice_items, usage_events, tx,
                   deliveries, lastEval, hvars, cvars, fvars>>

\* GetPreviousSnapshot, CheckThresholdAlert and CheckOnDemandSwitch of poll:
\* one call of the evaluation may fail; errors are logged, and poll goes on
PollAlertsIn(env) ==
    /\ pc = "alerts"
    /\ \E fault \in env.faults, critical \in env.onDemandCritical,
          readOk \in env.readOk :
        LET billingCycleStr == usageData.BillingCycleStart
            eval == CheckThresholdAlert(alerts_sent, usageData.UsagePercentage,
                                        billingCycleStr, fault, now)
            previousSnapshot == PreviousSnapshots(usage_snapshots)
            checked == critical /\ readOk /\ previousSnapshot # {}
            previousIsOnDemand == \E r \in previousSnapshot : r.is_on_demand
            sw == checked /\ CheckOnDemandSwitch(usageData.IsOnDemand, previousIsOnDemand)
        IN  /\ alerts_sent' = eval.ledger
            /\ deliveries' = Delivered(deliveries, eval, billingCycleStr)
            /\ lastEval' = [ran |-> TRUE, attempted |-> eval.attempted,
                            delivered |-> eval.delivered, sendFailed |-> eval.sendFailed,
                            stoppedAt |-> eval.stoppedAt, stoppedStep |-> eval.stoppedStep,
                            err |-> eval.err, switchChecked |-> checked,
                            previousIsOnDemand |-> previousIsOnDemand,
                            switchSent |-> sw]
            /\ switchHist' = IF sw THEN [fired |-> TRUE,
                                         refired |-> switchHist.refired \/ switchHist.fired]
                                   ELSE switchHist
    /\ pc' = "items"
    /\ lastCall' = NoCall
    /\ UNCHANGED <<now, retentionDays, usage_snapshots, invoice_items, usage_events, tx,
                   usageData, invoiceData, remote, lastFetch, cvars, fvars>>

PollAlerts == PollAlertsIn(SpecEnv)

\* the items poll builds from invoiceData.Items: those that parse, under the
\* cycle of the usage view
RECURSIVE PollItems(_, _, _)
PollItems(items, billingCycleStr, t) ==
    IF items = <<>> THEN <<>>
    ELSE LET item == Head(items)
             rest == PollItems(Tail(items), billingCycleStr, t)
             parsed == ParseInvoiceItem(item)
         IN  IF parsed.err THEN rest
             ELSE <<[BillingCycle |-> billingCycleStr, ModelName |-> parsed.modelName,
                     RequestCount |-> parsed.requestCount, CostCents |-> item.Cents,
                     IsDiscounted |-> FALSE, FetchedAt |-> t]>> \o rest

\* "Save invoice items if available": SaveInvoiceItems commits or leaves the
\* table as it was; its error is logged
PollSaveInvoiceItems ==
    /\ pc = "items"
    /\ LET billingCycleStr == usageData.BillingCycleStart
           items == PollItems(invoiceData.Items, billingCycleStr, now)
       IN  IF Len(items) > 0
           THEN \E ok \in BOOLEAN :
                  invoice_items' =
                      IF ok THEN DeleteCycle(invoice_items, billingCycleStr) (+) ItemRows(items)
                            ELSE invoice_items
           ELSE UNCHANGED invoice_items
    /\ pc' = "events"
    /\ lastCall' = NoCall
    /\ UNCHANGED <<now, retentionDays, usage_snapshots, alerts_sent, usage_events, tx,
                   usageData, invoiceData, deliveries, lastEval, hvars, cvars, fvars>>

\* "Save usage events if available": SaveUsageEvents under the cycle of the
\* usage view; its error is logged
PollSaveUsageEvents ==
    /\ pc = "events"
    /\ LET billingCycleStr == usageData.BillingCycleStart
           events == invoiceData.UsageEvents
       IN  IF Len(events) > 0
           THEN \E ok \in BOOLEAN :
                  usage_events' =
                      IF ok THEN InsertEvents(usage_events, billingCycleStr, events, now)
                            ELSE usage_events
           ELSE UNCHANGED usage_events
    /\ pc' = "cleanup"
    /\ lastCall' = NoCall
    /\ UNCHANGED <<now, retentionDays, usage_snapshots, alerts_sent, invoice_items, tx,
                   usageData, invoiceData, deliveries, lastEval, hvars, cvars, fvars>>

\* m.storage.CleanupOldData(m.config.Database.RetentionDays), the last call of
\* poll; its error is logged
PollCleanup ==
    /\ pc = "cleanup"
    /\ \E done \in 0..4 :
        LET after == CleanupTables(done, now - retentionDays)
        IN  /\ usage_snapshots' = after[1]
            /\ alerts_sent' = after[2]
            /\ invoice_items' = after[3]
            /\ usage_events' = after[4]
    /\ EndPoll
    /\ lastCall' = NoCall
    /\ UNCHANGED <<now, retentionDays, tx, deliveries, lastEval, hvars, cvars, fvars>>

Next ==
    \/ Tick
    \/ PollFetch
    \/ PollSaveSnapshot
    \/ PollAlerts
    \/ PollSaveInvoiceItems
    \/ PollSaveUsageEvents
    \/ PollCleanup

Init ==
    /\ pageSize = DefaultPageSize /\ FetcherAtRest /\ MonitorAtRest
    /\ now = 0
    /\ retentionDays \in RetentionChoices
    /\ usage_snapshots = EmptyBag
    /\ alerts_sent = EmptyBag
    /\ invoice_items = EmptyBag
    /\ usage_events = EmptyBag
    /\ tx = NoTx
    /\ lastCall = NoCall

\* the monitor: poll cycles, one after the other, as time passes
Spec == Init /\ [][Next]_vars

(***************************************************************************)
(* The monitor against a remote source whose billing moves between         *)
(* included and on-demand usage, and whose invoice cannot always be        *)
(* fetched.                                                                *)
(***************************************************************************)
\* an item of an invoice response that ParseInvoiceItem reads
RemoteItem(model, count, cents) ==
    [Description |-> <<Num(count), Word("token-based"), Word("usage"), Word("calls"),
                       Word("to"), WordComma(model), Word("totalling:"), Word("$12.50")>>,
     Cents |-> cents]

\* the item "Mid-month usage paid", which ParseInvoiceItem cannot read
MidMonthItem(cents) ==
    [Description |-> <<Word("Mid-month"), Word("usage"), Word("paid")>>,
     Cents |-> cents]

\* the invoice of a cycle billed on demand
OnDemandInvoice == <<RemoteItem("claude-4-sonnet", 100, 1000)>>

\* the remote source bills, or stops billing, on demand, or serves other
\* events, between two poll cycles
RemoteChange(env) ==
    /\ pc = "idle"
    /\ \E items \in env.items, events \in env.events :
        /\ remote' = [Items |-> items, UsageEvents |-> events]
        /\ remote' # remote
        /\ switchHist' = IF TotalOnDemandCents(items) > 0 THEN switchHist
                          ELSE [switchHist EXCEPT !.fired = FALSE]
    /\ UNCHANGED <<pc, usageData, invoiceData, deliveries, lastEval, lastFetch,
                   cvars, svars, fvars>>

SwitchEnv ==
    [used |-> {0},
     limits |-> {0},
     items |-> {<<>>, OnDemandInvoice},
     events |-> {<<>>},
     tokens |-> {<<TRUE, TRUE, TRUE>>},
     usages |-> {<<"ok", "ok">>},
     invoice |-> {"ok", "failed"},
     readOk |-> {TRUE},
     faults |-> {[at |-> 0, step |-> "none"]},
     onDemandCritical |-> BOOLEAN,
     maxSnapshots |-> MaxSnapshots + 2]

SwitchFetch == PollFetchIn(SwitchEnv)
SwitchAlerts == PollAlertsIn(SwitchEnv)
SwitchRemote == RemoteChange(SwitchEnv)

SwitchNext ==
    \/ Tick
    \/ SwitchRemote
    \/ SwitchFetch
    \/ PollSaveSnapshot
    \/ SwitchAlerts
    \/ PollSaveInvoiceItems
    \/ PollSaveUsageEvents
    \/ PollCleanup

SwitchInit ==
    /\ Init
    /\ retentionDays = DefaultRetentionDays

SwitchSpec == SwitchInit /\ [][SwitchNext]_vars

(***************************************************************************)
(* The monitor against a remote source that bills on demand while its      *)
(* coarse counter may read zero, that serves the events of the cycle or    *)
(* none, and against a store whose reads may fail.                         *)
(***************************************************************************)
\* n events of kind Included, all of one second, told apart by their tokens
IncludedEvents(n) ==
    [i \in 1..n |-> [UsageEvent(1, 0, "Included", 1) EXCEPT !.TotalTokens = i]]

\* an invoice of two on-demand items and the payment made mid-month
LongInvoice ==
    <<RemoteItem("claude-4-sonnet", 100, 1000), RemoteItem("gpt-4o", 50, 500),
      MidMonthItem(700)>>

BillingEnv ==
    [used |-> {0, UsedFor(50)},
     limits |-> {0},
     items |-> {OnDemandInvoice, LongInvoice},
     events |-> {<<>>,
                 <<UsageEvent(1, 0, "Included", 1), UsageEvent(1, 0, "On-Demand", 1)>>,
                 <<UsageEvent(1, 0, "On-Demand", 1)>>},
     tokens |-> {<<TRUE, TRUE, TRUE>>},
     usages |-> {<<"ok", "ok">>},
     invoice |-> {"ok", "failed"},
     readOk |-> BOOLEAN,
     faults |-> {[at |-> 0, step |-> "none"]},
     onDemandCritical |-> {TRUE},
     maxSnapshots |-> MaxSnapshots]

BillingFetch == PollFetchIn(BillingEnv)
BillingAlerts == PollAlertsIn(BillingEnv)
BillingRemote == RemoteChange(BillingEnv)

\* poll cycles of one day
BillingNext ==
    \/ BillingRemote
    \/ BillingFetch
    \/ PollSaveSnapshot
    \/ BillingAlerts
    \/ PollSaveInvoiceItems
    \/ PollSaveUsageEvents
    \/ PollCleanup

\* the rows an earlier run of the monitor left for the events of a cycle
PersistedEvents(billingCycle, events, t) ==
    SetToBag({EventRow(billingCycle, events[i], t) : i \in DOMAIN events})

\* the monitor starts on a database that is empty or holds the 42 Included
\* events of the running cycle
BillingInit ==
    /\ pageSize = DefaultPageSize /\ FetcherAtRest /\ MonitorAtRest
    /\ now = 0
    /\ retentionDays = DefaultRetentionDays
    /\ usage_snapshots = EmptyBag
    /\ alerts_sent = EmptyBag
    /\ invoice_items = EmptyBag
    /\ usage_events \in {EmptyBag, PersistedEvents(CycleStart(0), IncludedEvents(42), 0)}
    /\ tx = NoTx
    /\ lastCall = NoCall

BillingSpec == BillingInit /\ [][BillingNext]_vars

(***************************************************************************)
(* The monitor against a token that may be unreadable and a remote source  *)
(* that may refuse it, for the usage and for the invoice.                   *)
(***************************************************************************)
\* how a call to the remote source may turn out
CallOutcomes == {"ok", "unauthorized", "failed"}

AuthEnv ==
    [used |-> {UsedFor(50)},
     limits |-> {0},
     items |-> {<<>>},
     events |-> {<<>>},
     tokens |-> [1..3 -> BOOLEAN],
     usages |-> [1..2 -> CallOutcomes],
     invoice |-> CallOutcomes,
     readOk |-> {TRUE},
     faults |-> {[at |-> 0, step |-> "none"]},
     onDemandCritical |-> {TRUE},
     maxSnapshots |-> MaxSnapshots]

AuthFetch == PollFetchIn(AuthEnv)
AuthAlerts == PollAlertsIn(AuthEnv)

AuthNext ==
    \/ Tick
    \/ AuthFetch
    \/ PollSaveSnapshot
    \/ AuthAlerts
    \/ PollSaveInvoiceItems
    \/ PollSaveUsageEvents
    \/ PollCleanup

AuthSpec == Init /\ [][AuthNext]_vars

(***************************************************************************)
(* The monitor with its two callers of poll: the loop of Run, on every     *)
(* tick, and Poll, for a manual refresh.  Each runs poll in its own        *)
(* goroutine on the same Monitor; the steps of the two interleave as the   *)
(* scheduler decides.                                                      *)
(***************************************************************************)
\* the scheduler lets the other caller take the next steps: the locals of its
\* poll become the current ones, and the current ones are set aside
Yield ==
    /\ trigger' = other.trigger
    /\ pc' = other.pc
    /\ usageData' = other.usageData
    /\ invoiceData' = other.invoiceData
    /\ lastEval' = other.lastEval
    /\ lastFetch' = other.lastFetch
    /\ other' = [trigger |-> trigger, pc |-> pc, usageData |-> usageData,
                 invoiceData |-> invoiceData, lastEval |-> lastEval,
                 lastFetch |-> lastFetch]
    /\ UNCHANGED <<deliveries, remote, switchHist, svars, fvars, avars, rvars, ivars>>

TriggerEnv ==
    [used |-> {UsedFor(Thresholds[1])},
     limits |-> {0},
     items |-> {<<>>},
     events |-> {<<>>},
     tokens |-> {<<TRUE, TRUE, TRUE>>},
     usages |-> {<<"ok", "ok">>},
     invoice |-> {"ok"},
     readOk |-> {TRUE},
     faults |-> {[at |-> 0, step |-> "none"]},
     onDemandCritical |-> {TRUE},
     maxSnapshots |-> MaxSnapshots]

TriggerFetch == PollFetchIn(TriggerEnv)
TriggerAlerts == PollAlertsIn(TriggerEnv)

TriggerNext ==
    \/ Tick
    \/ Yield
    \/ TriggerFetch
    \/ PollSaveSnapshot
    \/ TriggerAlerts
    \/ PollSaveInvoiceItems
    \/ PollSaveUsageEvents
    \/ PollCleanup

TriggerSpec == Init /\ [][TriggerNext]_vars

(***************************************************************************)
(* The snapshots, driven through the storage API as the tests drive it:    *)
(* the caller chooses the timestamp of the snapshot it saves.              *)
(***************************************************************************)
\* Storage.SaveUsageSnapshot: one INSERT, which may fail
SaveUsageSnapshot ==
    /\ BagCardinality(usage_snapshots) <= MaxSnapshots
    /\ \E t \in Days, s \in 1..2, onDemand \in BOOLEAN, fault \in BOOLEAN :
        LET row == [timestamp |-> t, seq |-> s, billing_cycle_start |-> CycleStart(t),
                    is_on_demand |-> onDemand, on_demand_spend_cents |-> 0]
        IN  /\ usage_snapshots' = IF fault THEN usage_snapshots
                                           ELSE Insert(usage_snapshots, row)
            /\ lastCall' = [op |-> "SaveUsageSnapshot", key |-> <<t, s>>,
                            fault |-> fault, err |-> fault, result |-> {}]
    /\ UNCHANGED <<now, retentionDays, alerts_sent, invoice_items, usage_events, tx,
                   fvars, pvars>>

\* the query of GetLatestSnapshot (offset 0) and GetPreviousSnapshot (offset
\* 1): the row at that place, nil for sql.ErrNoRows, an error for any other
\* failure.  The result is the set of the row returned, empty for nil.
QuerySnapshot(op, offset) ==
    /\ \E fault \in BOOLEAN, result \in SUBSET SnapshotsAt(usage_snapshots, offset) :
        /\ Cardinality(result) = IF fault \/ SnapshotsAt(usage_snapshots, offset) = {}
                                 THEN 0 ELSE 1
        /\ lastCall' = [op |-> op, key |-> <<>>, fault |-> fault, err |-> fault,
                        result |-> result]
    /\ UNCHANGED <<now, retentionDays, tables, tx, fvars, pvars>>

GetLatestSnapshot == QuerySnapshot("GetLatestSnapshot", 0)

GetPreviousSnapshot == QuerySnapshot("GetPreviousSnapshot", 1)

SnapshotNext == SaveUsageSnapshot \/ GetLatestSnapshot \/ GetPreviousSnapshot

SnapshotSpec == LedgerInit /\ [][SnapshotNext]_vars

(***************************************************************************)
(* The invoice response, read by tryGetInvoice and by ParseInvoiceItem.    *)
(***************************************************************************)
\* the descriptions of TestParseInvoiceItem and TestInvoiceDataOnDemand, and
\* variants of them: the token-based form with nothing after the model, with
\* something else than the total after it, and the mid-month payment in
\* capital letters
Descriptions ==
    {<<Num(150), Word("token-based"), Word("usage"), Word("calls"), Word("to"),
       WordComma("claude-4-sonnet"), Word("totalling:"), Word("$12.50")>>,
     <<Num(150), Word("token-based"), Word("usage"), Word("calls"), Word("to"),
       Word("claude-4-sonnet")>>,
     <<Num(150), Word("token-based"), Word("usage"), Word("calls"), Word("to"),
       WordComma("claude-4-sonnet"), Word("(discount)")>>,
     <<Num(200), Word("gpt-4o"), Word("requests")>>,
     <<Word("Some"), Word("random"), Word("text")>>,
     <<Num(100), Word("calls"), Word("to"), Word("claude-4-sonnet")>>,
     <<Word("Mid-month"), Word("usage"), Word("paid")>>,
     <<Word("MID-MONTH"), Word("USAGE"), Word("PAID")>>}

CentsChoices == {0 - 500, 0, 500, 1000}

ResponseItems == [Description : Descriptions, Cents : CentsChoices]

InvoiceResponses == UNION {[1..n -> ResponseItems] : n \in 0..MaxItems}

\* tryGetInvoice, from the decoded response on: the InvoiceData it returns
tryGetInvoice ==
    /\ invoiceData' = InvoiceOf(remote.Items, remote.UsageEvents)
    /\ lastCall' = [op |-> "tryGetInvoice", key |-> <<>>, fault |-> FALSE,
                    err |-> FALSE, result |-> {}]
    /\ UNCHANGED <<now, retentionDays, tables, tx, fvars, pc, usageData,
                   deliveries, lastEval, hvars, cvars>>

\* ParseInvoiceItem, called on an item of the response
ParseItem ==
    /\ \E i \in 1..Len(remote.Items) :
        LET parsed == ParseInvoiceItem(remote.Items[i])
        IN  lastCall' = [op |-> "ParseInvoiceItem", key |-> <<i>>, fault |-> FALSE,
                         err |-> parsed.err, result |-> {parsed}]
    /\ UNCHANGED <<now, retentionDays, tables, tx, fvars, pvars>>

ResponseNext == tryGetInvoice \/ ParseItem

ResponseInit ==
    /\ pageSize = DefaultPageSize /\ FetcherAtRest
    /\ pc = "idle" /\ usageData = NoUsage /\ invoiceData = NoInvoice
    /\ deliveries = EmptyBag /\ lastEval = NoEval
    /\ remote \in {[Items |-> items, UsageEvents |-> <<>>] : items \in InvoiceResponses}
    /\ switchHist = NoSwitch /\ lastFetch = NoFetch
    /\ trigger = "timer" /\ other = NoPoll
    /\ AuthAtRest
    /\ RunAtRest
    /\ InvoiceCallAtRest
    /\ now = 0
    /\ retentionDays = DefaultRetentionDays
    /\ usage_snapshots = EmptyBag
    /\ alerts_sent = EmptyBag
    /\ invoice_items = EmptyBag
    /\ usage_events = EmptyBag
    /\ tx = NoTx
    /\ lastCall = NoCall

ResponseSpec == ResponseInit /\ [][ResponseNext]_vars

(***************************************************************************)
(* The token cache.  GetToken reads the cache under the read lock, reads    *)
(* Cursor's database with no lock held, and writes the cache under the      *)
(* write lock; RefreshToken empties the cache under the write lock.  The    *)
(* callers run in their own goroutines on one Auth.                         *)
(***************************************************************************)
MaxToken == 2

\* what is no part of the token cache
nvars == <<fvars, svars, pc, usageData, invoiceData, deliveries, lastEval, hvars,
           trigger, other, rvars, ivars>>

\* fmt.Sprintf("%s%%3A%%3A%s", userID, jwtToken): the session token of an
\* access token, whose subject is the user
SessionToken(jwtToken) == [userID |-> "user", jwt |-> jwtToken]

\* the caller's GetToken returns
Return(c, reread, err, token, source) ==
    /\ tokenReturned' = [afterRefresh |-> getToken[c].afterRefresh,
                         alone |-> getToken[c].alone, reread |-> reread,
                         err |-> err, token |-> token, source |-> source]
    /\ getToken' = [getToken EXCEPT ![c] = NoGetToken]

\* GetToken, the check of the cache: a cached token is returned at once
GetTokenCached(c) ==
    /\ getToken[c].pc = "idle"
    /\ cachedToken # NoToken
    /\ tokenReturned' = [afterRefresh |-> refresh.pending, alone |-> refresh.alone,
                         reread |-> FALSE, err |-> FALSE, token |-> cachedToken,
                         source |-> cursorDB]
    /\ refresh' = NoRefresh
    /\ UNCHANGED <<cachedToken, cursorDB, getToken, nvars>>

\* GetToken, the check of the cache: nothing is cached, the lock is released
GetTokenMiss(c) ==
    /\ getToken[c].pc = "idle"
    /\ cachedToken = NoToken
    /\ getToken' = [getToken EXCEPT ![c] =
            [pc |-> "read", jwtToken |-> 0, afterRefresh |-> refresh.pending,
             alone |-> refresh.alone]]
    /\ refresh' = NoRefresh
    /\ UNCHANGED <<cachedToken, cursorDB, tokenReturned, nvars>>

\* GetToken, readTokenFromDB and extractUserID: the token of the database, or
\* an error, which is returned
GetTokenRead(c) ==
    /\ getToken[c].pc = "read"
    /\ \E ok \in BOOLEAN :
        IF ok
        THEN /\ getToken' = [getToken EXCEPT ![c].pc = "cache", ![c].jwtToken = cursorDB]
             /\ UNCHANGED tokenReturned
        ELSE Return(c, TRUE, TRUE, NoToken, cursorDB)
    /\ UNCHANGED <<cachedToken, cursorDB, refresh, nvars>>

\* GetToken, the write of the cache, and the return of the session token
GetTokenCache(c) ==
    /\ getToken[c].pc = "cache"
    /\ cachedToken' = SessionToken(getToken[c].jwtToken)
    /\ Return(c, TRUE, FALSE, SessionToken(getToken[c].jwtToken), getToken[c].jwtToken)
    /\ UNCHANGED <<cursorDB, refresh, nvars>>

\* RefreshToken, by a caller that has no GetToken under way
RefreshToken(c) ==
    /\ getToken[c].pc = "idle"
    /\ cachedToken' = NoToken
    /\ refresh' = [pending |-> TRUE,
                   alone |-> \A o \in Callers : getToken[o].pc = "idle"]
    /\ UNCHANGED <<cursorDB, getToken, tokenReturned, nvars>>

\* Cursor signs in again: its database holds a new access token
RotateToken ==
    /\ cursorDB < MaxToken
    /\ cursorDB' = cursorDB + 1
    /\ UNCHANGED <<cachedToken, getToken, refresh, tokenReturned, nvars>>

GetTokenHit == \E c \in Callers : GetTokenCached(c)
GetTokenBegin == \E c \in Callers : GetTokenMiss(c)
GetTokenFromDB == \E c \in Callers : GetTokenRead(c)
GetTokenEnd == \E c \in Callers : GetTokenCache(c)
Refresh == \E c \in Callers : RefreshToken(c)

TokenNext ==
    \/ GetTokenHit
    \/ GetTokenBegin
    \/ GetTokenFromDB
    \/ GetTokenEnd
    \/ Refresh
    \/ RotateToken

TokenSpec == Init /\ [][TokenNext]_vars

(***************************************************************************)
(* The monitoring loop.  Run looks for a stored snapshot, polls once, on a  *)
(* first run fetches the invoices of earlier months, and then polls at      *)
(* every tick of its ticker until its context is cancelled.  The steps of   *)
(* poll are those above; the cancellation may come between any two steps.   *)
(***************************************************************************)
MaxTicks == 2

\* the monthsBack that Run gives FetchHistoricalInvoiceData
MonthsBack == 3

RunEnv ==
    [used |-> {UsedFor(50)},
     limits |-> {0},
     items |-> {<<>>},
     events |-> {<<>>, <<UsageEvent(1, 0, "On-Demand", 1)>>},
     tokens |-> {<<TRUE, TRUE, TRUE>>},
     usages |-> {<<"ok", "ok">>, <<"failed", "ok">>},
     invoice |-> {"ok"},
     readOk |-> {TRUE},
     faults |-> {[at |-> 0, step |-> "none"]},
     onDemandCritical |-> {TRUE},
     maxSnapshots |-> MaxTicks + 3]

\* what this part leaves alone of the fetcher, the token cache and the callers
RunUnchanged == UNCHANGED <<fvars, avars, ivars, trigger, other>>

\* m.poll(ctx) is called: nothing of it has run yet
CallPoll(after) ==
    /\ run' = [run EXCEPT !.pc = "poll", !.after = after, !.polls = @ + 1,
                          !.firstRun = @ \/ after = "historical"]
    /\ lastFetch' = NoFetch
    /\ lastEval' = NoEval

\* Run, up to its first poll: a first run is one that finds no snapshot, be
\* it that none is stored or that the query fails
RunStart ==
    /\ run.pc = "start"
    /\ \E readOk \in BOOLEAN :
        LET latestSnapshot == IF readOk THEN LatestSnapshots(usage_snapshots) ELSE {}
        IN  CallPoll(IF latestSnapshot = {} THEN "historical" ELSE "select")
    /\ UNCHANGED <<svars, pc, usageData, invoiceData, deliveries, remote, switchHist,
                   ctxDone>>
    /\ RunUnchanged

\* the first step of poll, taken once poll has been called
RunPollFetch == run.pc = "poll" /\ ~lastFetch.ran /\ PollFetchIn(RunEnv)

RunPollAlerts == PollAlertsIn(RunEnv)

RunRemote == RemoteChange(RunEnv)

\* a Run that passes the error of poll on to its caller
PollReturnsError ==
    /\ run.pc = "poll" /\ lastFetch.ran /\ pc = "idle"
    /\ LET err == ~lastFetch.ok \/ ~lastEval.ran
       IN  run' = [run EXCEPT !.failed = IF err THEN @ + 1 ELSE @,
                              !.pc = IF err THEN "returned" ELSE "select",
                              !.err = IF err THEN "poll failed" ELSE @]
    /\ UNCHANGED <<svars, pc, usageData, invoiceData, deliveries, lastEval, hvars, ctxDone>>
    /\ RunUnchanged

\* poll returns to Run: with an error when the fetch failed or the snapshot
\* could not be saved.  After the first poll of a first run that returned no
\* error, Run reads the latest snapshot and goes on to the earlier months.
PollReturns ==
    /\ run.pc = "poll" /\ lastFetch.ran /\ pc = "idle"
    /\ LET err == ~lastFetch.ok \/ ~lastEval.ran
           counted == [run EXCEPT !.failed = IF err THEN @ + 1 ELSE @]
       IN  IF run.after = "historical" /\ ~err
           THEN \E readOk \in BOOLEAN :
                  LET latestSnapshot ==
                          IF readOk THEN LatestSnapshots(usage_snapshots) ELSE {}
                  IN  IF latestSnapshot = {}
                      THEN run' = [counted EXCEPT !.pc = "select"]
                      ELSE \E r \in latestSnapshot :
                             run' = [counted EXCEPT !.pc = "historical", !.i = 0,
                                        !.historical = "running",
                                        !.billingCycleStart = r.billing_cycle_start]
           ELSE run' = [counted EXCEPT !.pc = "select"]
    /\ UNCHANGED <<svars, pc, usageData, invoiceData, deliveries, lastEval, hvars, ctxDone>>
    /\ RunUnchanged

\* billingCycleStart.AddDate(0, -i, 0)
MonthsBefore(billingCycleStart, i) == billingCycleStart - i * CycleDays

\* FetchHistoricalInvoiceData, one turn of its loop: the invoice of the month
\* is fetched (GetMonthlyInvoice returns no error, and no items when its
\* calls fail), its items are saved, and the context is looked at
FetchHistoricalInvoiceData ==
    /\ run.pc = "historical"
    /\ \E fetched \in {"ok", "failed"}, items \in {<<>>, OnDemandInvoice}, saved \in BOOLEAN :
        LET targetDate == MonthsBefore(run.billingCycleStart, run.i)
            invoiceData_ == IF fetched = "ok" THEN InvoiceOf(items, <<>>) ELSE NoInvoice
            parsed == PollItems(invoiceData_.Items, targetDate, now)
            last == run.i + 1 >= MonthsBack
        IN  /\ invoice_items' =
                  IF Len(parsed) > 0 /\ saved
                  THEN DeleteCycle(invoice_items, targetDate) (+) ItemRows(parsed)
                  ELSE invoice_items
            /\ run' = [run EXCEPT
                          !.attempted = @ \cup {targetDate},
                          !.i = @ + 1,
                          !.pc = IF ctxDone \/ last THEN "select" ELSE "historical",
                          !.historical = IF ctxDone THEN "cancelled"
                                         ELSE IF last THEN "done" ELSE "running"]
    /\ lastCall' = NoCall
    /\ UNCHANGED <<now, retentionDays, usage_snapshots, alerts_sent, usage_events, tx,
                   pc, usageData, invoiceData, deliveries, lastEval, hvars, ctxDone>>
    /\ RunUnchanged

\* the select of the loop takes the case of ctx.Done(): Run returns
RunDone ==
    /\ run.pc = "select"
    /\ ctxDone
    /\ run' = [run EXCEPT !.pc = "returned", !.err = "context canceled"]
    /\ UNCHANGED <<svars, pc, usageData, invoiceData, deliveries, lastEval, hvars, ctxDone>>
    /\ RunUnchanged

\* the select of the loop takes the case of ticker.C, which is ready when the
\* polling interval has passed, whether or not ctx.Done() is ready as well
RunTick ==
    /\ run.pc = "select"
    /\ run.polls < MaxTicks + 1
    /\ CallPoll("select")
    /\ \E days \in {0, 1} : now' = now + days
    /\ lastCall' = NoCall
    /\ UNCHANGED <<retentionDays, tables, tx, pc, usageData, invoiceData, deliveries,
                   remote, switchHist, ctxDone>>
    /\ RunUnchanged

\* the shutdown signal: the context is cancelled
Cancel ==
    /\ ~ctxDone
    /\ ctxDone' = TRUE
    /\ UNCHANGED <<run, svars, pc, usageData, invoiceData, deliveries, lastEval, hvars>>
    /\ RunUnchanged

RunNext ==
    \/ RunStart
    \/ RunRemote
    \/ RunPollFetch
    \/ PollSaveSnapshot
    \/ RunPollAlerts
    \/ PollSaveInvoiceItems
    \/ PollSaveUsageEvents
    \/ PollCleanup
    \/ PollReturns
    \/ FetchHistoricalInvoiceData
    \/ RunDone
    \/ RunTick
    \/ Cancel

\* a database that is new, or that holds the snapshot of an earlier run
RunInit ==
    /\ pageSize = DefaultPageSize /\ FetcherAtRest /\ MonitorAtRest
    /\ now = 0
    /\ retentionDays = DefaultRetentionDays
    /\ usage_snapshots \in {EmptyBag,
            SetToBag({[timestamp |-> 0 - 1, seq |-> 1, billing_cycle_start |-> 0 - CycleDays,
                       is_on_demand |-> FALSE, on_demand_spend_cents |-> 0]})}
    /\ alerts_sent = EmptyBag
    /\ invoice_items = EmptyBag
    /\ usage_events = EmptyBag
    /\ tx = NoTx
    /\ lastCall = NoCall

RunSpec == RunInit /\ [][RunNext]_vars

(***************************************************************************)
(* The invoice lookup of poll.  GetMonthlyInvoiceWithCycle asks the invoice *)
(* endpoint in three ways, asks the usage events endpoint when it has no    *)
(* events, and returns what it has; poll looks up the month of the billing  *)
(* cycle start and, on an error, the current month.                         *)
(***************************************************************************)
\* how a request of the lookup may turn out: no answer of status 200, an
\* answer without items or events, and an answer with one or the other
RequestOutcomes == {"failed", "empty", "items", "events"}

\* what tryGetInvoice and getFilteredUsageEvents return for an outcome, when
\* the month holds the items and events of served
Returned(outcome, served) ==
    [err |-> outcome = "failed",
     data |-> IF outcome = "items" THEN InvoiceOf(served.Items, <<>>)
              ELSE IF outcome = "events" THEN InvoiceOf(<<>>, served.UsageEvents)
              ELSE NoInvoice]

HasData(data) == Len(data.Items) > 0 \/ Len(data.UsageEvents) > 0

\* GetMonthlyInvoiceWithCycle: tried are the results of tryGetInvoice for the
\* three payloads, filtered is that of getFilteredUsageEvents.  nil is the
\* invoiceData that is still nil; requests counts the calls made.
GetMonthlyInvoiceWithCycle(tried, filtered) ==
    LET good == {i \in 1..Len(tried) : ~tried[i].err /\ HasData(tried[i].data)}
        first == IF good = {} THEN 0
                 ELSE CHOOSE i \in good : \A j \in good : i <= j
        nil == first = 0
        invoiceData_ == IF nil THEN NoInvoice ELSE tried[first].data
        asked == nil \/ Len(invoiceData_.UsageEvents) = 0
        merged == asked /\ ~filtered.err /\ Len(filtered.data.UsageEvents) > 0
    IN  [data |-> IF merged
                  THEN IF nil THEN filtered.data
                       ELSE [invoiceData_ EXCEPT !.UsageEvents = filtered.data.UsageEvents]
                  ELSE invoiceData_,
         err |-> FALSE,
         requests |-> (IF nil THEN Len(tried) ELSE first) + (IF asked THEN 1 ELSE 0)]

\* what the remote source holds for the month of the billing cycle start and
\* for the current month
CycleMonth == [Items |-> OnDemandInvoice, UsageEvents |-> <<UsageEvent(1, 0, "On-Demand", 1)>>]
CurrentMonth == [Items |-> LongInvoice, UsageEvents |-> <<UsageEvent(1, 0, "Included", 1)>>]

\* poll, "Fetch invoice data for the billing cycle": the lookup of the month
\* of the billing cycle start; on an error the lookup of the current month,
\* when that is another month; on an error of that, empty invoice data.
\* One lookup of one poll cycle is followed.
PollInvoice ==
    /\ lastCall = NoCall
    /\ \E tried \in [1..3 -> RequestOutcomes],
          filtered \in RequestOutcomes \ {"items"},
          current \in {"failed", "items"},
          sameMonth \in BOOLEAN :
        LET billing == GetMonthlyInvoiceWithCycle(
                           [i \in 1..3 |-> Returned(tried[i], CycleMonth)],
                           Returned(filtered, CycleMonth))
            fallback == GetMonthlyInvoiceWithCycle(
                           [i \in 1..3 |-> Returned(current, CurrentMonth)],
                           Returned(current, CurrentMonth))
            retried == billing.err /\ ~sameMonth
            last == IF retried THEN fallback ELSE billing
        IN  /\ invoiceData' = IF last.err THEN NoInvoice ELSE last.data
            /\ lastCall' = [op |-> "GetMonthlyInvoiceWithCycle",
                            key |-> <<tried, filtered, current, sameMonth>>,
                            fault |-> filtered = "failed" /\ \A i \in 1..3 : tried[i] = "failed",
                            err |-> billing.err,
                            result |-> {[lookups |-> IF retried THEN 2 ELSE 1,
                                         requests |-> billing.requests,
                                         current |-> fallback.data]}]
    /\ UNCHANGED <<now, retentionDays, tables, tx, fvars, pc, usageData,
                   deliveries, lastEval, hvars, cvars>>

LookupNext == PollInvoice

LookupInit == ResponseInit /\ remote = NoRemote

LookupSpec == LookupInit /\ [][LookupNext]_vars

(***************************************************************************)
(* The invoice request.  tryGetInvoice posts its payload and, when the      *)
(* answer carries both periodStartMs and periodEndMs, calls itself on each  *)
(* of three alternative endpoints before it reads the answer it has.        *)
(***************************************************************************)
MaxDepth == 4

\* altEndpoints of tryGetInvoice; 0 is the endpoint of the outermost call
AltEndpoints == 1..3

\* what the server may answer: no answer of status 200; an answer without the
\* period and with or without items; an answer with the period and with or
\* without items
Answers == {"failed", "empty", "items", "period", "periodItems"}

\* a call of tryGetInvoice that has sent its request
Called(endpoint) == [endpoint |-> endpoint, answer |-> "none", alt |-> 0]

\* a call of tryGetInvoice returns res to the calls in progress, the stack
\* fs: the caller returns data of an alternative endpoint at once, goes on to
\* the next alternative endpoint otherwise, and after the last one returns
\* what its own answer holds
RECURSIVE Unwind(_, _)
Unwind(fs, res) ==
    IF fs = <<>>
    THEN [frames |-> <<>>, returned |-> [res EXCEPT !.done = TRUE]]
    ELSE LET n == Len(fs)
             caller == fs[n]
             callers == SubSeq(fs, 1, n - 1)
         IN  IF ~res.err /\ res.hasData
             THEN Unwind(callers, res)
             ELSE IF caller.alt + 1 \in AltEndpoints
             THEN [frames |-> Append(callers, [caller EXCEPT !.alt = @ + 1])
                                  \o <<Called(caller.alt + 1)>>,
                   returned |-> NoInvoiceReturned]
             ELSE Unwind(callers, [done |-> FALSE, err |-> FALSE,
                                   hasData |-> caller.answer = "periodItems",
                                   endpoint |-> caller.endpoint])

\* tryGetInvoice is called by GetMonthlyInvoiceWithCycle
TryGetInvoiceCall ==
    /\ frames = <<>>
    /\ frames' = <<Called(0)>>
    /\ invoiceReturned' = NoInvoiceReturned
    /\ UNCHANGED <<fvars, svars, pc, usageData, invoiceData, deliveries, lastEval, hvars,
                   trigger, other, avars, rvars>>

\* the innermost call gets its answer: it returns, or it has the period and
\* calls itself on the first alternative endpoint
TryGetInvoiceAnswer ==
    /\ frames # <<>>
    /\ \E answer \in Answers :
        LET n == Len(frames)
            call == frames[n]
            callers == SubSeq(frames, 1, n - 1)
        IN  IF answer \in {"period", "periodItems"}
            THEN /\ n < MaxDepth
                 /\ frames' = Append(callers, [call EXCEPT !.answer = answer, !.alt = 1])
                                  \o <<Called(1)>>
                 /\ invoiceReturned' = NoInvoiceReturned
            ELSE LET after == Unwind(callers, [done |-> FALSE, err |-> answer = "failed",
                                               hasData |-> answer = "items",
                                               endpoint |-> call.endpoint])
                 IN  /\ frames' = after.frames
                     /\ invoiceReturned' = after.returned
    /\ UNCHANGED <<fvars, svars, pc, usageData, invoiceData, deliveries, lastEval, hvars,
                   trigger, other, avars, rvars>>

InvoiceCallNext == TryGetInvoiceCall \/ TryGetInvoiceAnswer

InvoiceCallSpec == LookupInit /\ [][InvoiceCallNext]_vars

(***************************************************************************)
(* Properties of the paginated fetcher.                                    *)
(***************************************************************************)

\* C4 (as stated): against a conforming server holding srvTotal events the
\* fetch requests exactly ceil(srvTotal / pageSize) pages, and the last page
\* holds srvTotal mod pageSize items (pageSize when the remainder is zero),
\* for every total and page size.
C4_PagesForEveryTotal ==
    (fpc = "done" /\ conforming) =>
        /\ page = CeilDiv(srvTotal, pageSize)
        /\ pageEventCount = LastPageSize(srvTotal, pageSize)

\* C4 (amended): the same for every total >= 1; with no events at all the
\* fetch still requests one page, which is empty.
C4_PagesFetched ==
    (fpc = "done" /\ conforming) =>
        IF srvTotal = 0
        THEN page = 1 /\ pageEventCount = 0
        ELSE /\ page = CeilDiv(srvTotal, pageSize)
             /\ pageEventCount = LastPageSize(srvTotal, pageSize)

\* the spec's example: 808 events in pages of 100 are 9 pages, the last of 8
C4_Witness ==
    /\ fpc = "done" /\ conforming
    /\ srvTotal = 808 /\ pageSize = DefaultPageSize
    /\ page = 9 /\ pageEventCount = 8

\* C5 (as stated): a further page is requested only while the most recent
\* page held exactly pageSize items and, when page 1 reported a total, the
\* accumulated count is below that total; a page of fewer than pageSize items
\* ends the fetch.
C5_ContinueExactly ==
    [][/\ (fpc = "loop" /\ fpc' = "loop") =>
            /\ pageEventCount' = pageSize
            /\ reportedTotal'.present => allEvents' < reportedTotal'.value
       /\ (fpc = "loop" /\ fpc' \in {"loop", "done"} /\ pageEventCount' < pageSize) =>
            fpc' = "done"]_vars

\* C5 (amended): a further page is requested only while the most recent page
\* held at least pageSize items and, when page 1 reported a positive total,
\* the accumulated count of well-formed events is below that total; a page of
\* fewer than pageSize items ends the fetch, whatever total was reported.
C5_ContinueOnlyWhile ==
    [][/\ (fpc = "loop" /\ fpc' = "loop") =>
            /\ pageEventCount' >= pageSize
            /\ (reportedTotal'.present /\ reportedTotal'.value > 0) =>
                    allEvents' < reportedTotal'.value
       /\ (fpc = "loop" /\ fpc' \in {"loop", "done"} /\ pageEventCount' < pageSize) =>
            fpc' = "done"]_vars

\* a second page is being requested after a full first page that reported a
\* total not yet reached
C5_Witness ==
    /\ fpc = "loop" /\ page = 2
    /\ pageEventCount = pageSize
    /\ reportedTotal.present /\ allEvents < reportedTotal.value

\* C6: the page loop terminates for every server behaviour.
C6_LoopTerminates == (fpc = "loop") ~> (fpc # "loop")

\* C7: a fetch yields the complete collection of the server's events or an
\* explicit error, whatever the server does on pages after the first: both
\* for getFilteredUsageEvents and for what GetMonthlyInvoiceWithCycle returns.
C7_CompleteOrError ==
    /\ (fpc = "done" /\ page1Conforming) => allEvents = srvTotal
    /\ (fpc = "returned" /\ page1Conforming) =>
            (invResult.err \/ invResult.events = srvTotal)

(***************************************************************************)
(* Properties of the alert engine.                                         *)
(***************************************************************************)

\* C1: across the poll cycles of one billing cycle, the notification of a
\* (threshold, billing cycle) pair is delivered at most once.
C1_AtMostOnce ==
    \A d \in DOMAIN deliveries : d.ok => deliveries[d] <= 1

\* C11: when a delivery succeeds and its recording fails, the user gets no
\* duplicate notification for that (threshold, billing cycle) on later cycles.
C11_NoDuplicateAfterRecordFailure ==
    \A d \in DOMAIN deliveries :
        RecordFailure(d.threshold, d.billing_cycle) \in DOMAIN deliveries =>
            deliveries[Delivery(d.threshold, d.billing_cycle, TRUE)] <= 1

\* the thresholds the ledger holds a row for in the cycle
\* the snapshot the running cycle saved, and the one saved before it
CurrentSnapshot == {r \in DOMAIN usage_snapshots : r.seq = NextSeq(usage_snapshots) - 1}
EarlierSnapshot == {r \in DOMAIN usage_snapshots : r.seq = NextSeq(usage_snapshots) - 2}

\* C13: with the switch alert enabled and an earlier snapshot at hand, the
\* alert evaluation of a cycle sends the on-demand switch notification exactly
\* when the snapshot of the cycle is on-demand and the snapshot before it is
\* not; it never sends it for (true, true), (false, false) or (true, false),
\* nor without an earlier snapshot.
C13_SwitchExactly ==
    [][(lastEval'.ran /\ ~lastEval.ran) =>
        /\ lastEval'.switchChecked =>
              /\ EarlierSnapshot # {}
              /\ \A cur \in CurrentSnapshot, prev \in EarlierSnapshot :
                    lastEval'.switchSent <=> (cur.is_on_demand /\ ~prev.is_on_demand)
        /\ lastEval'.switchSent => lastEval'.switchChecked]_vars

\* C13 witness: a cycle found the usage on-demand after a snapshot that was
\* not, and sent the notification
C13_Witness ==
    /\ pc = "items"
    /\ lastEval.switchSent
    /\ \E cur \in CurrentSnapshot, prev \in EarlierSnapshot :
          cur.is_on_demand /\ ~prev.is_on_demand

\* the Included events among those the running cycle fetched
FetchedIncluded(events) ==
    Cardinality({i \in DOMAIN events : events[i].Kind = "Included"})

\* the Included events persisted for a cycle
PersistedIncluded(billingCycle) ==
    BagCardinality(Where(usage_events,
        {r \in DOMAIN usage_events :
            r.billing_cycle = billingCycle /\ r.kind = "Included"}))

\* what resolution makes of `included` Included events: that count and its
\* share of the limit, or the limit and 100% when there is none
ResolvedTo(usage, included) ==
    LET limit == usage.PremiumRequestsLimit
    IN  IF included > 0
        THEN /\ usage.PremiumRequestsUsed = included
             /\ usage.UsagePercentage.num * limit = included * 100 * usage.UsagePercentage.den
        ELSE /\ usage.PremiumRequestsUsed = limit
             /\ usage.UsagePercentage = Ratio(100, 1)

\* C15 (as stated): when the resolved on-demand flag is true and the coarse
\* requests-used is 0, resolution counts the Included events persisted for
\* the cycle.
C15_ResolvedFromPersisted ==
    [][(pc = "idle" /\ pc' = "snapshot" /\ usageData'.IsOnDemand
            /\ lastFetch'.requestsUsed = 0) =>
        ResolvedTo(usageData', PersistedIncluded(usageData'.BillingCycleStart))]_vars

\* C15 (amended): when the resolved on-demand flag is true and the coarse
\* requests-used is 0, resolution counts the Included events among the events
\* fetched in this cycle or, when none was fetched, among the events persisted
\* for the cycle if they can be read; it sets requests-used to that count and
\* the percentage to count / limit x 100 (limit 500 and 42 Included events
\* give 42 and 8.4%), and with a count of zero requests-used = limit and
\* percentage = 100.
C15_ResolvedFromEventsAtHand ==
    [][(pc = "idle" /\ pc' = "snapshot" /\ usageData'.IsOnDemand
            /\ lastFetch'.requestsUsed = 0) =>
        LET fetched == invoiceData'.UsageEvents
            included == IF Len(fetched) > 0 THEN FetchedIncluded(fetched)
                        ELSE IF lastFetch'.readOk
                        THEN PersistedIncluded(usageData'.BillingCycleStart)
                        ELSE 0
        IN  /\ ResolvedTo(usageData', included)
            /\ (usageData'.PremiumRequestsLimit = 500 /\ included = 42) =>
                  /\ usageData'.PremiumRequestsUsed = 42
                  /\ usageData'.UsagePercentage = [num |-> 42, den |-> 5]]_vars

\* C15 witness: on demand with a coarse count of zero, no event fetched and
\* 42 Included events persisted for the cycle, resolved to 42 requests, 8.4%
C15_Witness ==
    /\ pc = "snapshot"
    /\ usageData.IsOnDemand
    /\ lastFetch.requestsUsed = 0
    /\ invoiceData.UsageEvents = <<>>
    /\ PersistedIncluded(usageData.BillingCycleStart) = 42
    /\ usageData.PremiumRequestsUsed = 42
    /\ usageData.UsagePercentage = [num |-> 42, den |-> 5]

\* the on-demand total of the invoice the running cycle fetched: that of the
\* items the remote source holds, nothing when the fetch failed
FetchedTotal ==
    IF lastFetch.invoice = "ok" THEN TotalOnDemandCents(remote.Items) ELSE 0

\* the sum of the cost of the invoice items persisted for a cycle
PersistedTotal(billingCycle) ==
    SumCostCents(Where(invoice_items,
        {r \in DOMAIN invoice_items : r.billing_cycle = billingCycle}))

C17_PersistedBeforeAlerts ==
    [][(lastEval'.ran /\ ~lastEval.ran) =>
        LET billingCycle == usageData.BillingCycleStart
            items == PollItems(invoiceData.Items, billingCycle, now)
            events == invoiceData.UsageEvents
        IN  /\ \E row \in CurrentSnapshot : row.billing_cycle_start = billingCycle
            /\ Len(items) > 0 =>
                  ItemsForCycle(invoice_items, billingCycle) = ItemRows(items)
            /\ \A i \in DOMAIN events :
                  EventConflict(usage_events, EventRow(billingCycle, events[i], now))]_vars

\* C18: a cycle in which a remote call, for the usage or for the invoice, was
\* refused as unauthorized has refreshed the credential once and, the
\* credential being readable again, made that call a second time; a cycle
\* whose fetch failed has ended with an error.
C18_RefreshAndRetryOnce ==
    lastFetch.ran =>
        /\ lastFetch.usageUnauthorized =>
              /\ lastFetch.authRefreshes = 1
              /\ \/ lastFetch.usageCalls = 2
                 \/ lastFetch.err = "getting token after refresh failed"
        /\ lastFetch.invoice = "unauthorized" =>
              lastFetch.authRefreshes >= 1 /\ lastFetch.invoiceCalls = 2
        /\ ~lastFetch.ok => pc = "idle" /\ lastFetch.err # "none"

\* C19: the poll called by the loop of Run and the poll called through Poll
\* are never both under way.
C19_OneCycleAtATime == pc = "idle" \/ other.pc = "idle"

\* `after` is `before` without the rows of `old`
Pruned(before, after, old) ==
    /\ DOMAIN after = DOMAIN before \ old
    /\ \A r \in DOMAIN after : after[r] = before[r]

\* C20: a call of CleanupOldData(N) that returns no error has removed from
\* each of usage_snapshots, alerts_sent, invoice_items and usage_events the
\* rows whose timestamp column is strictly older than the one cutoff now - N
\* days, and no other row: a row written at the cutoff survives, a snapshot
\* 100 days old is removed by a prune of 90 days and one 10 days old survives.
C20_PrunesStrictlyOlder ==
    [][(lastCall'.op = "CleanupOldData" /\ ~lastCall'.err) =>
        LET cutoff == now - retentionDays
        IN  /\ Pruned(usage_snapshots, usage_snapshots',
                      {r \in DOMAIN usage_snapshots : r.timestamp < cutoff})
            /\ Pruned(alerts_sent, alerts_sent',
                      {r \in DOMAIN alerts_sent : r.timestamp < cutoff})
            /\ Pruned(invoice_items, invoice_items',
                      {r \in DOMAIN invoice_items : r.fetched_at < cutoff})
            /\ Pruned(usage_events, usage_events',
                      {r \in DOMAIN usage_events : r.fetched_at < cutoff})
            /\ retentionDays = 90 =>
                  \A r \in DOMAIN usage_snapshots :
                      /\ r.timestamp = now - 100 => r \notin DOMAIN usage_snapshots'
                      /\ r.timestamp = now - 10 => r \in DOMAIN usage_snapshots']_vars

\* C20 witness: a prune of 90 days on the database whose rows were 100, 90
\* and 10 days old has returned, and every table is left with the rows of
\* 90 and of 10 days
C20_Witness ==
    /\ lastCall.op = "CleanupOldData" /\ ~lastCall.err
    /\ retentionDays = 90 /\ now = 0
    /\ {r.timestamp : r \in DOMAIN usage_snapshots} = {-90, -10}
    /\ {r.timestamp : r \in DOMAIN alerts_sent} = {-90, -10}
    /\ {r.fetched_at : r \in DOMAIN invoice_items} = {-90, -10}
    /\ {r.fetched_at : r \in DOMAIN usage_events} = {-90, -10}

\* the stored snapshots, counted with their copies, that are later than r, and
\* those that are not earlier than r (r among them)
LaterThan(r) ==
    BagCardinality(Where(usage_snapshots,
        {x \in DOMAIN usage_snapshots :
            x.timestamp > r.timestamp \/ (x.timestamp = r.timestamp /\ x.seq > r.seq)}))
NotEarlierThan(r) ==
    BagCardinality(Where(usage_snapshots,
        {x \in DOMAIN usage_snapshots :
            x.timestamp > r.timestamp \/ (x.timestamp = r.timestamp /\ x.seq >= r.seq)}))

\* C21: a call of GetLatestSnapshot that returns no error returns a stored
\* snapshot than which none is later, and nil when none is stored; a call of
\* GetPreviousSnapshot that returns no error returns a stored snapshot that is
\* second in the order of timestamps (at most one is later, at least two are
\* not earlier), and nil when fewer than two are stored.
C21_LatestAndPrevious ==
    /\ (lastCall.op = "GetLatestSnapshot" /\ ~lastCall.err) =>
          IF usage_snapshots = EmptyBag THEN lastCall.result = {}
          ELSE \E r \in DOMAIN usage_snapshots :
                  lastCall.result = {r} /\ LaterThan(r) = 0
    /\ (lastCall.op = "GetPreviousSnapshot" /\ ~lastCall.err) =>
          IF BagCardinality(usage_snapshots) < 2 THEN lastCall.result = {}
          ELSE \E r \in DOMAIN usage_snapshots :
                  lastCall.result = {r} /\ LaterThan(r) <= 1 /\ NotEarlierThan(r) >= 2

\* C21 witness: of three snapshots of different timestamps, saved out of
\* order, GetPreviousSnapshot has returned the middle one
C21_Witness ==
    /\ lastCall.op = "GetPreviousSnapshot" /\ ~lastCall.err
    /\ BagCardinality(usage_snapshots) = 3
    /\ \E r \in lastCall.result :
          /\ LaterThan(r) = 1 /\ NotEarlierThan(r) = 2
          /\ \E x \in DOMAIN usage_snapshots : x.timestamp > r.timestamp
          /\ \E x \in DOMAIN usage_snapshots : x.timestamp < r.timestamp

\* the items of a response that are billed on demand: positive cents, and a
\* description without the words of the mid-month payment
Billable(items) ==
    {i \in 1..Len(items) :
        /\ items[i].Cents > 0
        /\ ~Contains(items[i].Description, MidMonthPhrase)}

\* the sum of the cents of the items at the places in a set
RECURSIVE CentsAt(_, _)
CentsAt(items, places) ==
    IF places = {} THEN 0
    ELSE LET i == CHOOSE p \in places : TRUE
         IN  items[i].Cents + CentsAt(items, places \ {i})

\* C22: the billing-item total of a response is the sum of the cents of its
\* items with positive cents whose description does not contain "Mid-month
\* usage paid", and the on-demand flag of the invoice is true exactly when
\* that total is greater than zero.
C22_TotalExcludesMidMonth ==
    lastCall.op = "tryGetInvoice" =>
        /\ invoiceData.TotalOnDemandCents = CentsAt(remote.Items, Billable(remote.Items))
        /\ invoiceData.IsOnDemand <=> CentsAt(remote.Items, Billable(remote.Items)) > 0

\* C22 witness: a response with a mid-month payment of positive cents and a
\* billed item has been totalled
C22_Witness ==
    /\ lastCall.op = "tryGetInvoice"
    /\ invoiceData.IsOnDemand
    /\ \E i \in 1..Len(remote.Items) :
          /\ remote.Items[i].Cents > 0
          /\ Contains(remote.Items[i].Description, MidMonthPhrase)
    /\ Billable(remote.Items) # {}

\* "<N> token-based usage calls to <model>, totalling: $<amount>"
TokenBasedForm(d) ==
    /\ Len(d) = 8
    /\ d[1].digits
    /\ <<d[2].text, d[3].text, d[4].text, d[5].text>> = <<"token-based", "usage", "calls", "to">>
    /\ d[6].comma
    /\ d[7].text = "totalling:"
    /\ d[8].text = "$12.50"

\* "<N> <model> requests"
RequestsForm(d) ==
    /\ Len(d) = 3
    /\ d[1].digits
    /\ d[3].text = "requests"

\* what ParseInvoiceItem has just returned, for a description
Parsed(d) ==
    /\ lastCall.op = "ParseInvoiceItem"
    /\ remote.Items[lastCall.key[1]].Description = d

\* C23: ParseInvoiceItem returns the model name and the leading count of a
\* line of the token-based form or of the requests form, and an error instead
\* of a result for every line that is of neither form.
C23_ParsesOrErrors ==
    \A d \in Descriptions :
        Parsed(d) =>
            IF TokenBasedForm(d)
            THEN lastCall.result = {[modelName |-> d[6].text, requestCount |-> d[1].value,
                                     err |-> FALSE]}
            ELSE IF RequestsForm(d)
            THEN lastCall.result = {[modelName |-> d[2].text, requestCount |-> d[1].value,
                                     err |-> FALSE]}
            ELSE lastCall.err

\* C23, the lines of the two forms: they parse to their model and count
C23_FormsParse ==
    \A d \in Descriptions :
        Parsed(d) /\ (TokenBasedForm(d) \/ RequestsForm(d)) =>
            lastCall.result = {[modelName |-> IF TokenBasedForm(d) THEN d[6].text ELSE d[2].text,
                                requestCount |-> d[1].value, err |-> FALSE]}

\* C23 witness: the line of the test has been parsed to claude-4-sonnet, 150
C23_Witness ==
    /\ lastCall.op = "ParseInvoiceItem"
    /\ TokenBasedForm(remote.Items[lastCall.key[1]].Description)
    /\ lastCall.result = {[modelName |-> "claude-4-sonnet", requestCount |-> 150, err |-> FALSE]}

\* the place of the last event of a slice that has the natural key of the
\* event at place i
LastOfKey(events, i) ==
    CHOOSE j \in DOMAIN events :
        /\ EventKey(EventRow(0, events[j], 0)) = EventKey(EventRow(0, events[i], 0))
        /\ \A k \in DOMAIN events :
              EventKey(EventRow(0, events[k], 0)) = EventKey(EventRow(0, events[i], 0)) => k <= j

\* the usage events have just been saved, without a fault
EventsSaved == lastCall.op = "SaveUsageEvents" /\ ~lastCall.err

C25_SpendNeverDecreases ==
    \A a, b \in DOMAIN usage_snapshots :
        a.billing_cycle_start = b.billing_cycle_start /\ Newer(b, a) =>
            b.on_demand_spend_cents >= a.on_demand_spend_cents

\* C26: when the on-demand flag is true and the coarse requests-used is not
\* zero but less than the limit, requests-used is recomputed as the count of
\* the Included events of the cycle (those fetched, or those persisted when
\* none was fetched), and is the limit with 100% only if there is none.
C26_RecountedBelowLimit ==
    [][(pc = "idle" /\ pc' = "snapshot" /\ usageData'.IsOnDemand
            /\ lastFetch'.requestsUsed > 0
            /\ lastFetch'.requestsUsed < usageData'.PremiumRequestsLimit) =>
        LET fetched == invoiceData'.UsageEvents
            included == IF Len(fetched) > 0 THEN FetchedIncluded(fetched)
                        ELSE IF lastFetch'.readOk
                        THEN PersistedIncluded(usageData'.BillingCycleStart)
                        ELSE 0
        IN  ResolvedTo(usageData', included)]_vars

\* C27: after every poll cycle whose invoice fetch succeeded, the stored
\* invoice items of the current billing cycle are exactly the items of that
\* response (those that can be read as model and count), for every response,
\* one that holds no items included.
C27_StoredItemsAreResponse ==
    [][(pc = "items" /\ pc' = "events" /\ lastFetch.invoice = "ok") =>
        ItemsForCycle(invoice_items', usageData.BillingCycleStart) =
            ItemRows(PollItems(invoiceData.Items, usageData.BillingCycleStart, now))]_vars

\* the usage call of the last fetch failed, and not for want of authorization
UsageFetchFailed(fetch) ==
    fetch.ran /\ fetch.err \in {"fetching usage", "fetching usage after token refresh"}

\* the invoice or events call of the last fetch failed likewise
InvoiceFetchFailed(fetch) == fetch.ran /\ fetch.invoice = "failed"

\* C28, the usage call: its failure ends the cycle at once, without another
\* call, and nothing is written or sent
C28_UsageFailureAborts ==
    [][UsageFetchFailed(lastFetch') =>
        /\ pc' = "idle"
        /\ UNCHANGED <<tables, deliveries>>
        /\ lastFetch'.err = "fetching usage" => lastFetch'.usageCalls = 1]_vars

\* C28: a fetch failure other than an authorization failure, on the usage,
\* invoice or events call, aborts the cycle without retry: no step of that
\* cycle writes a snapshot, an invoice item, an event or a ledger entry, or
\* sends an alert.
C28_FetchFailureAborts ==
    [][/\ UsageFetchFailed(lastFetch') =>
            /\ pc' = "idle"
            /\ UNCHANGED <<tables, deliveries>>
            /\ lastFetch'.err = "fetching usage" => lastFetch'.usageCalls = 1
       /\ (InvoiceFetchFailed(lastFetch) /\ pc # "idle") =>
            UNCHANGED <<tables, deliveries>>]_vars

\* the step that was to save the snapshot has written nothing
SnapshotWriteFailed == pc = "snapshot" /\ usage_snapshots' = usage_snapshots

\* the step that was to replace the invoice items of the cycle has not
ItemsWriteFailed ==
    LET billingCycleStr == usageData.BillingCycleStart
        items == PollItems(invoiceData.Items, billingCycleStr, now)
    IN  /\ pc = "items"
        /\ Len(items) > 0
        /\ invoice_items' # DeleteCycle(invoice_items, billingCycleStr) (+) ItemRows(items)

\* the step that was to save the usage events has not
EventsWriteFailed ==
    /\ pc = "events"
    /\ Len(invoiceData.UsageEvents) > 0
    /\ usage_events' # InsertEvents(usage_events, usageData.BillingCycleStart,
                                     invoiceData.UsageEvents, now)

\* C29, the snapshot: a failure to write it ends the cycle
C29_SnapshotFailureAborts ==
    [][SnapshotWriteFailed => pc' = "idle" /\ UNCHANGED <<tables, deliveries>>]_vars

\* C29: a storage write failure at any persistence step of a cycle (snapshot,
\* invoice items or usage events) aborts all remaining steps of that cycle,
\* and the monitor is at rest again for the next tick.
C29_WriteFailureAborts ==
    [][(SnapshotWriteFailed \/ ItemsWriteFailed \/ EventsWriteFailed) => pc' = "idle"]_vars

\* the configured thresholds that an evaluation of this state finds crossed
\* and absent from the ledger
DueThresholds ==
    {Thresholds[i] : i \in {j \in 1..Len(Thresholds) :
        /\ Crossed(usageData.UsagePercentage, Thresholds[j])
        /\ ~AlertAlreadySentIn(alerts_sent, "threshold", Thresholds[j],
                               usageData.BillingCycleStart)}}

\* C30, the evaluations in which no call fails: every due threshold gets its
\* delivery attempt
C30_AttemptedWithoutFailure ==
    [][(lastEval'.ran /\ ~lastEval.ran /\ ~lastEval'.err) =>
        DueThresholds \subseteq lastEval'.attempted]_vars

\* C30: in each alert evaluation, every configured threshold that is <= the
\* current usage percentage and absent from the ledger gets a delivery
\* attempt in that same evaluation (but for the threshold whose own ledger
\* check fails).
C30_EveryDueThresholdAttempted ==
    [][(lastEval'.ran /\ ~lastEval.ran) =>
        \A i \in 1..Len(Thresholds) :
            (/\ Thresholds[i] \in DueThresholds
             /\ ~(lastEval'.stoppedAt = i /\ lastEval'.stoppedStep = "check")) =>
                Thresholds[i] \in lastEval'.attempted]_vars

\* the keys the ledger holds as sent
SentKeys(ledger) == {AlertKey(r) : r \in DOMAIN ledger}

\* C31: for each (alert type, threshold, billing cycle) the ledger state
\* moves only from not-sent to sent: a key that AlertAlreadySent reports as
\* sent is reported as sent in every later state, whatever storage operation
\* runs in between.
C31_SentStaysSent ==
    [][SentKeys(alerts_sent) \subseteq SentKeys(alerts_sent')]_vars

\* C31, but for retention pruning: every storage operation other than
\* CleanupOldData leaves the keys that are sent as sent; CleanupOldData takes
\* from the ledger the rows older than its cutoff and no other.
C31_SentUntilPruned ==
    [][/\ lastCall'.op # "CleanupOldData" =>
            SentKeys(alerts_sent) \subseteq SentKeys(alerts_sent')
       /\ lastCall'.op = "CleanupOldData" =>
            \A r \in DOMAIN alerts_sent :
                r \in DOMAIN alerts_sent' \/ r.timestamp < now - retentionDays]_vars

\* C31 witness: AlertAlreadySent has reported as sent a key that was
\* recorded on an earlier day, with another key recorded since
C31_Witness ==
    /\ lastCall.op = "AlertAlreadySent" /\ lastCall.result
    /\ \E r, x \in DOMAIN alerts_sent :
          /\ AlertKey(r) = lastCall.key
          /\ r.timestamp < x.timestamp

\* C32: once RefreshToken has returned, the next GetToken re-reads the token
\* from the credential source and does not return the value that was cached
\* before the refresh, also when other GetToken calls are in flight.
C32_RereadsAfterRefresh ==
    (tokenReturned.afterRefresh /\ ~tokenReturned.err) =>
        /\ tokenReturned.reread
        /\ tokenReturned.token = SessionToken(tokenReturned.source)

\* C32, the value: the next GetToken after a refresh returns the session
\* token of what the database holds (when it returns from the cache) or held
\* (when it read it)
C32_ReturnsSourceToken ==
    (tokenReturned.afterRefresh /\ ~tokenReturned.err) =>
        tokenReturned.token = SessionToken(tokenReturned.source)

\* C32, with no GetToken in flight when RefreshToken runs: the next GetToken
\* returns what it reads from the database
C32_RereadsWhenAlone ==
    (tokenReturned.afterRefresh /\ tokenReturned.alone /\ ~tokenReturned.err) =>
        /\ tokenReturned.reread
        /\ tokenReturned.token = SessionToken(tokenReturned.source)

\* C33: Run never returns because a poll cycle failed.  The step in which a
\* poll returns with an error leaves Run at the select of its loop; from
\* there, as long as the context is not cancelled, the only step of Run is
\* the next poll at the next tick; and Run returns from that select alone,
\* with the context cancelled and the context's error.
C33_FailedPollKeepsRunning ==
    [][/\ run'.failed > run.failed => run'.pc = "select"
       /\ (run.pc = "select" /\ ~ctxDone /\ run' # run) => run'.pc = "poll"
       /\ (run'.pc = "returned" /\ run.pc # "returned") =>
             run.pc = "select" /\ ctxDone /\ run'.err = "context canceled"]_vars

\* a poll has failed, and Run is in a later poll
C33_Witness ==
    /\ run.failed > 0
    /\ run.pc = "poll" /\ ~lastFetch.ran
    /\ ~ctxDone

\* C34: once the context is cancelled, the poll cycle in progress writes
\* nothing more to the store.
C34_NoWritesAfterCancel == [][ctxDone => tables' = tables]_vars

\* C34, second half: no poll cycle starts once the context is cancelled.
C34_NoCycleAfterCancel == [][ctxDone => run'.polls = run.polls]_vars

\* C34, as far as it holds: the loop over the earlier months looks at the
\* context after each month and stops when it is cancelled.
C34_HistoricalStopsOnCancel ==
    [][(run.pc = "historical" /\ ctxDone /\ run' # run) =>
          run'.pc = "select" /\ run'.historical = "cancelled"]_vars

\* C38: when the loop over the earlier months has run to its end, the
\* cycles it has fetched are the three before the cycle of the snapshot.
C38_BackfillsThreePreceding ==
    run.historical = "done" =>
        run.attempted = {MonthsBefore(run.billingCycleStart, k) : k \in 1..MonthsBack}

\* C38, as far as it holds: a loop that is not cancelled fetches MonthsBack
\* cycles, whatever the fetch and the save of each of them come to.
C38_AttemptsEveryMonth ==
    run.historical = "done" =>
        run.attempted = {MonthsBefore(run.billingCycleStart, k) : k \in 0..(MonthsBack - 1)}

\* C35: when every request of the lookup for the month of the billing cycle
\* start has failed and the current month is another month whose lookup
\* brings data, poll has made a second lookup and uses the data of the
\* current month.
C35_FallsBackToCurrentMonth ==
    (/\ lastCall.op = "GetMonthlyInvoiceWithCycle"
     /\ lastCall.fault
     /\ ~lastCall.key[4]
     /\ lastCall.key[3] = "items") =>
        \A r \in lastCall.result : r.lookups = 2 /\ invoiceData = r.current

\* C35, what poll does: the lookup returns no error, whatever its requests
\* come to, so that poll makes one lookup and uses its result, which is
\* empty when every request has failed.
C35_OneLookupOnly ==
    lastCall.op = "GetMonthlyInvoiceWithCycle" =>
        /\ ~lastCall.err
        /\ \A r \in lastCall.result : r.lookups = 1
        /\ lastCall.fault => invoiceData = NoInvoice

\* C36: the billing cycle of every stored usage event comes from the date of
\* the event: it is that date, as the CSV import writes it, or the start of
\* the cycle in which the date lies.
C36_CycleOfEventDate ==
    \A r \in DOMAIN usage_events :
        r.billing_cycle \in {r.event_date.day, CycleStart(r.event_date.day)}

\* C36, what poll does: the events a poll cycle saves are stored under the
\* billing cycle start of the usage view of that cycle.
C36_CycleOfSnapshot ==
    [][(pc = "events" /\ pc' = "cleanup") =>
          \A r \in DOMAIN usage_events' \ DOMAIN usage_events :
              r.billing_cycle = usageData.BillingCycleStart]_vars

\* C37: the step of a poll cycle that saves its snapshot adds one row to
\* usage_snapshots and leaves the rows held as they are (a save that fails
\* adds none, and ends the cycle); the cleanup of the cycle removes rows
\* older than the retention period and changes no other; and no other step
\* changes the table.
C37_SnapshotsAppendOnly ==
    [][/\ (pc = "snapshot" /\ pc' = "alerts") =>
             /\ usage_snapshots \sqsubseteq usage_snapshots'
             /\ BagCardinality(usage_snapshots') = BagCardinality(usage_snapshots) + 1
       /\ (pc = "snapshot" /\ pc' # "alerts") => usage_snapshots' = usage_snapshots
       /\ pc = "cleanup" =>
             /\ usage_snapshots' \sqsubseteq usage_snapshots
             /\ \A r \in DOMAIN usage_snapshots \ DOMAIN usage_snapshots' :
                   r.timestamp < now - retentionDays
       /\ pc \notin {"snapshot", "cleanup"} => usage_snapshots' = usage_snapshots]_vars

\* a cycle has added its snapshot to one of an earlier cycle, after the first
\* snapshot of all was pruned
C37_Witness ==
    /\ pc = "alerts"
    /\ BagCardinality(usage_snapshots) >= 2
    /\ \E r \in DOMAIN usage_snapshots : r.timestamp = now
    /\ \A r \in DOMAIN usage_snapshots : r.seq > 1

\* C40: every stored snapshot whose on-demand flag is set carries an
\* on-demand spend of more than zero cents.
C40_OnDemandHasSpend ==
    \A r \in DOMAIN usage_snapshots : r.is_on_demand => r.on_demand_spend_cents > 0

\* a snapshot with the flag set is stored, next to one without it
C40_Witness ==
    /\ \E r \in DOMAIN usage_snapshots : r.is_on_demand
    /\ \E r \in DOMAIN usage_snapshots : ~r.is_on_demand

\* C39: the calls of tryGetInvoice in progress stay below a bound, whatever
\* the server answers.
C39_DepthBounded == Len(frames) < MaxDepth

\* C39, the way there: a call is as deep as the number of answers before it
\* that carried the period, one from each of its callers.
C39_DepthIsPeriodAnswers ==
    \A i \in 1..Len(frames) :
        /\ i < Len(frames) => frames[i].answer \in {"period", "periodItems"}
                                /\ frames[i].alt \in AltEndpoints
        /\ i = Len(frames) => frames[i].answer = "none"

\* C14: the on-demand switch notification is not sent a second time while
\* the remote billing state has stayed on-demand since it was first sent.
C14_NoRefire == ~switchHist.refired

RecordedThresholds(ledger, billingCycle) ==
    {r.threshold_value : r \in {x \in DOMAIN ledger :
        x.alert_type = "threshold" /\ x.billing_cycle = billingCycle}}

\* C12: when every delivery and ledger write succeeds, one CheckThresholdAlert
\* call records a ledger entry for exactly the configured thresholds that are
\* <= the usage percentage and not yet in the ledger, and for none above it:
\* with thresholds [75, 90, 100], no prior alerts and usage exactly 75, exactly
\* one entry is recorded, for threshold 75.
C12_RecordsCrossedThresholds ==
    [][(lastEval'.ran /\ ~lastEval.ran /\ ~lastEval'.err) =>
        LET billingCycle == usageData.BillingCycleStart
            before == RecordedThresholds(alerts_sent, billingCycle)
            after == RecordedThresholds(alerts_sent', billingCycle)
            crossed == {Thresholds[i] : i \in {j \in 1..Len(Thresholds) :
                            Crossed(usageData.UsagePercentage, Thresholds[j])}}
        IN  /\ after \ before = crossed \ before
            /\ BagCardinality(alerts_sent') - BagCardinality(alerts_sent)
                    = Cardinality(crossed \ before)
            /\ (Thresholds = <<75, 90, 100>> /\ alerts_sent = EmptyBag
                    /\ usageData.UsagePercentage = Ratio(75, 1)) =>
                  /\ BagCardinality(alerts_sent') = 1
                  /\ after = {75}]_vars

\* with no prior alerts and usage exactly 75 an evaluation without failures
\* has recorded one entry, for threshold 75
C12_Witness ==
    /\ lastEval.ran /\ ~lastEval.err
    /\ usageData.UsagePercentage = Ratio(75, 1)
    /\ lastEval.delivered = {75}
    /\ BagCardinality(alerts_sent) = 1
    /\ RecordedThresholds(alerts_sent, usageData.BillingCycleStart) = {75}

\* the ledger holds a row for the threshold in the cycle
Recorded(ledger, threshold, billingCycle) ==
    AlertAlreadySentIn(ledger, "threshold", threshold, billingCycle)

\* the loop of an evaluation came to the delivery of the threshold with index i
ReachedDelivery(eval, i) ==
    \/ eval.stoppedAt = 0
    \/ eval.stoppedAt > i
    \/ eval.stoppedAt = i /\ eval.stoppedStep # "check"

\* C10: an evaluation in which the delivery for a threshold fails records no
\* ledger entry for it, and every evaluation that finds a crossed threshold
\* absent from the ledger, and whose loop comes to it, attempts its delivery.
C10_FailedDeliveryRetried ==
    [][lastEval'.ran /\ ~lastEval.ran =>
        \A i \in 1..Len(Thresholds) :
            LET threshold == Thresholds[i]
                billingCycle == usageData.BillingCycleStart
            IN  /\ threshold \in lastEval'.sendFailed =>
                      ~Recorded(alerts_sent', threshold, billingCycle)
                /\ (/\ Crossed(usageData.UsagePercentage, threshold)
                    /\ ~Recorded(alerts_sent, threshold, billingCycle)
                    /\ ReachedDelivery(lastEval', i)) =>
                      threshold \in lastEval'.attempted]_vars

\* the delivery for a threshold failed in an earlier cycle, and this cycle
\* attempted it again and delivered it
C10_Witness ==
    \E threshold \in lastEval.delivered :
        /\ Delivery(threshold, usageData.BillingCycleStart, FALSE) \in DOMAIN deliveries
        /\ Recorded(alerts_sent, threshold, usageData.BillingCycleStart)

(***************************************************************************)
(* Properties of the persistence layer.                                    *)
(***************************************************************************)

\* C8: after a successful SaveInvoiceItems(cycle, items) the stored invoice
\* items of that cycle are exactly `items` (every earlier row of the cycle is
\* gone, nothing is merged) and the items of every other billing cycle are
\* unchanged.
C8_WholesaleReplace ==
    [][(lastCall'.op = "SaveInvoiceItems" /\ ~lastCall'.err) =>
         /\ ItemsForCycle(invoice_items', tx.billingCycle) = ItemRows(tx.items)
         /\ \A r \in DOMAIN invoice_items' \cup DOMAIN tx.before :
                r.billing_cycle # tx.billingCycle =>
                    /\ r \in DOMAIN invoice_items' \cap DOMAIN tx.before
                    /\ invoice_items'[r] = tx.before[r]]_vars

\* a save has replaced two earlier rows of its cycle by one, while another
\* cycle holds rows
C8_Witness ==
    /\ lastCall.op = "SaveInvoiceItems" /\ ~lastCall.err
    /\ lastCall.replaced = 2
    /\ BagCardinality(ItemsForCycle(invoice_items, 1)) = 1
    /\ BagCardinality(ItemsForCycle(invoice_items, MaxDate)) = 2

\* C9: if SaveInvoiceItems fails or is interrupted at any step after its
\* delete, the cycle's previously stored items are all still present, and no
\* reader ever observes the cycle with its items deleted but not yet
\* re-inserted: while the transaction is open the table and every read of it
\* are as they were before the call.
C9_AtomicReplace ==
    [][/\ tx'.state # "none" => invoice_items' = tx'.before
       /\ (lastCall'.op = "GetInvoiceItemsForCycle" /\ tx.state # "none") =>
             lastCall'.rows = ItemsForCycle(tx.before, lastCall'.key[1])
       /\ (tx.state = "deleted" /\ tx'.state = "none" /\ lastCall'.err) =>
             invoice_items' = tx.before]_vars

\* a save that had deleted the rows of a cycle holding some has failed (or
\* the process stopped), and the rows are there
C9_Witness ==
    /\ lastCall.op \in {"SaveInvoiceItems", "crash"} /\ lastCall.err
    /\ lastCall.at = "deleted" /\ lastCall.replaced > 0
    /\ invoice_items # EmptyBag

\* C3: in every reachable state the alerts_sent ledger holds at most one row
\* per (alert type, threshold value, billing cycle), and a RecordAlert for a
\* key that is already present leaves the ledger unchanged and, unless the
\* database itself fails, returns no error.
C3_LedgerUnique ==
    [][/\ \A r \in DOMAIN alerts_sent' :
            BagCardinality(Where(alerts_sent',
                {x \in DOMAIN alerts_sent' : AlertKey(x) = AlertKey(r)})) = 1
       /\ (/\ lastCall'.op = "RecordAlert"
           /\ AlertAlreadySentIn(alerts_sent, lastCall'.key[1], lastCall'.key[2],
                                 lastCall'.key[3])) =>
              /\ alerts_sent' = alerts_sent
              /\ ~lastCall'.fault => ~lastCall'.err]_vars

\* RecordAlert has just been called without a database failure for a key the
\* ledger already held
C3_Witness ==
    /\ lastCall.op = "RecordAlert" /\ ~lastCall.fault /\ ~lastCall.err
    /\ \E r \in DOMAIN alerts_sent :
        AlertKey(r) = lastCall.key /\ r.timestamp < now

\* C2: saving events never adds a row for a natural key (event timestamp,
\* model, kind, total tokens) that is already stored, through the poller or
\* the CSV import: the row count grows by at most the new keys of the slice
\* (by none when every key is stored), a save fails only when the database
\* does, and every state holds at most one row per natural key.
C2_NoDuplicateEvents ==
    [][/\ \A r \in DOMAIN usage_events' :
            BagCardinality(Where(usage_events',
                {x \in DOMAIN usage_events' : EventKey(x) = EventKey(r)})) = 1
       /\ lastCall'.op \in {"SaveUsageEvents", "ImportUsageEventsCSV"} =>
            /\ BagCardinality(usage_events')
                    <= BagCardinality(usage_events) + lastCall'.newKeys
            /\ ~lastCall'.fault => ~lastCall'.err]_vars

\* an event whose key was stored has been saved again, through the CSV import
\* and without an error
C2_Witness ==
    /\ lastCall.op = "ImportUsageEventsCSV" /\ ~lastCall.err
    /\ lastCall.newKeys = 0
    /\ BagCardinality(usage_events) = 3

====
